---- MODULE Spec2Model ----
(***************************************************************************)
(* A model of the WebSocket chat example of verbjs/examples:               *)
(*   - ChatManager and the websocket open/message/close handlers of        *)
(*     websocket-chat/src/server.ts,                                       *)
(*   - MessageStore and RoomManager of                                     *)
(*     websocket-chat/src/chat/messages.ts,                                *)
(* and of the cart, order and payment handlers of its e-commerce example   *)
(* (ecommerce-api: MemoryStore, PaymentService, the order routes).         *)
(* JavaScript Maps are modelled as sequences in insertion order wherever   *)
(* the code iterates over them (sessions, typingIndicators).               *)
(***************************************************************************)
EXTENDS Integers, Sequences, FiniteSets, TLC

\* ------------------------------------------------------------------ bounds
MaxConns == 2      \* connection handles that may ever be opened
MaxMsgs == 2       \* send_message commands handled in one run
MaxTicks == 6      \* sweeper ticks in one run
MaxTyping == 1     \* typing indicators pending at one time
MaxFanoutMsgs == 1 \* send_message commands in one run of SpecFanout
MaxFlood == 102    \* ChatManager sends in the history-cap run
MaxStoreFlood == 1002  \* MessageStore.addMessage calls in the history-cap run

MaxHistory == 3    \* messages sent or stored in one run of SpecHistory
MaxLimit == 3      \* largest explicit limit of a history query

MaxStoreMsgs == 2  \* MessageStore.addMessage calls in one run of SpecStore
MaxMinutes == 6    \* minutes the clock of SpecStore runs
MaxJitter == 1     \* ms past a full minute at which the clock of SpecStore may stand

MaxRooms == 1      \* RoomManager.createRoom calls in one run

MaxOrders == 2     \* POST /api/orders requests that pass their checks in one run
MaxCartQty == 50   \* largest quantity of one product in one cart
MaxStock == 75     \* inventory above which no more cancellations are tried

\* ------------------------------------------------------- program constants
RoomCap == 100            \* server.ts:160
StoreCap == 1000          \* messages.ts:173
TypingTimeout == 5000     \* server.ts:209
SweepInterval == 1000     \* server.ts:218
DefaultLimit == 50        \* server.ts:267
EditWindow == 300000      \* messages.ts:72

RoomIds == {"general", "random", "tech", "gaming"}
NoRoom == "undefined"     \* session.currentRoom not set
UnknownRoom == "nosuch"   \* a room id that is not in the rooms map
Conns == 1..MaxConns       \* connection handles, numbered in the order they open
NoParam == ""             \* a query parameter that is absent
NameParams == {"Alice"}
GuestParams == {FALSE}
RoomInputs == {"general", "random", UnknownRoom}  \* room ids the clients name
Contents == {"hello"}
NoSession == 0            \* findSessionByWs / sessions.get found nothing
NoMessage == 0            \* a message id that is not given (`before` undefined)
CreatedRoomIds == <<"room1", "room2", "room3", "room4">>  \* crypto.randomUUID() of createRoom

VARIABLES
  rooms,             \* ChatManager.rooms: room id -> [users, messages]
  users,             \* ChatManager.users: user id -> [id, username, isGuest]
  sessions,          \* ChatManager.sessions, in insertion order
  typingIndicators,  \* ChatManager.typingIndicators, in insertion order
  nextId,            \* next value of crypto.randomUUID() for users and sessions
  nextMsgId,         \* next value of crypto.randomUUID() for messages
  now,               \* the clock, in ms
  ticks,             \* number of sweeper ticks fired so far
  conn,              \* per connection handle: "idle", "open" or "closed"
  cleanups,          \* per connection handle: removeSession calls made by close
  received,          \* per connection handle: ids of the 'message' envelopes delivered
  lastOp,            \* the event handled last and its outcome
  lastSent,          \* the ws.send calls of the event handled last, in order
  storeMessages,     \* MessageStore.messages: room id -> list of messages
  messageIndex,      \* MessageStore.messageIndex: message id -> message
  storeNextId,       \* next value of crypto.randomUUID() in MessageStore
  lastCall,          \* the MessageStore call or history query made last and its result
  rmRooms,           \* RoomManager.rooms: room id -> room
  rmNextId,          \* next value of crypto.randomUUID() in RoomManager
  rmCall,            \* the RoomManager call made last and its result
  products,          \* MemoryStore.products: product id -> [inventory, isActive]
  cartItems,         \* MemoryStore.cartItems: user id -> array of [productId, quantity]
  orders,            \* MemoryStore.orders, by order id: [userId, items, status, paymentId]
  paymentIntents,    \* PaymentService.paymentIntents, by intent id: [status, orderId]
  suspended,         \* per user: the order or cancel handler waiting at its await
  shopCall           \* the e-commerce request answered last and its response

vars == <<rooms, users, sessions, typingIndicators, nextId, nextMsgId, now, ticks,
          conn, cleanups, received, lastOp, lastSent, storeMessages, messageIndex,
          storeNextId, lastCall, rmRooms, rmNextId, rmCall, products, cartItems,
          orders, paymentIntents, suspended, shopCall>>

chatVars == <<rooms, users, sessions, typingIndicators, nextId, nextMsgId, now, ticks,
              conn, cleanups, received, lastOp, lastSent>>

storeVars == <<storeMessages, messageIndex, storeNextId>>

roomVars == <<rmRooms, rmNextId, rmCall>>

shopVars == <<products, cartItems, orders, paymentIntents, suspended, shopCall>>

\* ------------------------------------------------------------ list helpers
\* Array.prototype.slice(-n) for n >= 0: the last n elements; slice(-0) is slice(0),
\* the whole array
SliceLast(s, n) ==
  IF n = 0 \/ Len(s) <= n THEN s ELSE SubSeq(s, Len(s) - n + 1, Len(s))

Range(s) == {s[i] : i \in 1..Len(s)}

RemoveAt(s, i) == SubSeq(s, 1, i - 1) \o SubSeq(s, i + 1, Len(s))

\* the first of the indices in I, 0 when there is none
FirstIdx(I) == IF I = {} THEN 0 ELSE CHOOSE i \in I : \A j \in I : i <= j

\* ----------------------------------------------------- ChatManager: state
\* The manager's fields as one record m that the methods below transform; m.out
\* collects the ws.send calls made, m.failing is the set of connection handles
\* whose send throws during the event, m.raised tells an exception left the call.
Manager(failing) ==
  [rooms |-> rooms, users |-> users, sessions |-> sessions,
   typing |-> typingIndicators, nextId |-> nextId, nextMsgId |-> nextMsgId,
   now |-> now, out |-> <<>>, failing |-> failing, raised |-> FALSE, result |-> TRUE]

createDefaultRooms ==
  [r \in RoomIds |-> [users |-> {}, messages |-> <<>>]]

Envelope(type, roomId, username, userList, message) ==
  [type |-> type, roomId |-> roomId, username |-> username,
   users |-> userList, message |-> message]

SessionIdx(m, sessionId) == FirstIdx({j \in 1..Len(m.sessions) : m.sessions[j].id = sessionId})

createUser(m, username, isGuest) ==
  [m EXCEPT !.users = [u \in DOMAIN m.users \cup {m.nextId} |->
                         IF u = m.nextId
                         THEN [id |-> m.nextId, username |-> username, isGuest |-> isGuest]
                         ELSE m.users[u]],
            !.nextId = @ + 1]

createSession(m, userId, username, ws, isGuest) ==
  [m EXCEPT !.sessions = Append(@, [id |-> m.nextId, userId |-> userId,
                                    username |-> username, ws |-> ws,
                                    currentRoom |-> NoRoom, isGuest |-> isGuest]),
            !.nextId = @ + 1]

\* ---------------------------------------------------- ChatManager: fan-out
\* broadcastToRoom as it would be without the try/catch around ws.send: the first
\* throw ends the loop and leaves the method
broadcastAbortsOnThrow(m, roomId, message, excludeSessions) ==
  IF roomId \notin DOMAIN m.rooms THEN m
  ELSE LET targets == SelectSeq(m.sessions, LAMBDA s :
                         s.currentRoom = roomId /\ s.id \notin excludeSessions)
           firstBad == FirstIdx({j \in 1..Len(targets) : targets[j].ws \in m.failing})
           reached == IF firstBad = 0 THEN targets ELSE SubSeq(targets, 1, firstBad)
           writes == [i \in 1..Len(reached) |->
                        [to |-> reached[i].ws, sid |-> reached[i].id, env |-> message,
                         ok |-> reached[i].ws \notin m.failing]]
       IN [m EXCEPT !.out = @ \o writes, !.raised = @ \/ firstBad # 0]

\* broadcastToRoom as it would be without the currentRoom test
broadcastToEveryone(m, roomId, message, excludeSessions) ==
  IF roomId \notin DOMAIN m.rooms THEN m
  ELSE LET targets == SelectSeq(m.sessions, LAMBDA s : s.id \notin excludeSessions)
           writes == [i \in 1..Len(targets) |->
                        [to |-> targets[i].ws, sid |-> targets[i].id, env |-> message,
                         ok |-> targets[i].ws \notin m.failing]]
       IN [m EXCEPT !.out = @ \o writes]

broadcastToRoom(m, roomId, message, excludeSessions) ==
  IF roomId \notin DOMAIN m.rooms THEN m
  ELSE LET targets == SelectSeq(m.sessions, LAMBDA s :
                         s.currentRoom = roomId /\ s.id \notin excludeSessions)
           writes == [i \in 1..Len(targets) |->
                        [to |-> targets[i].ws, sid |-> targets[i].id, env |-> message,
                         ok |-> targets[i].ws \notin m.failing]]
       IN [m EXCEPT !.out = @ \o writes]

broadcastRoomUsers(m, roomId) ==
  IF roomId \notin DOMAIN m.rooms THEN m
  ELSE LET userList == {m.users[u] : u \in m.rooms[roomId].users \cap DOMAIN m.users}
       IN broadcastToRoom(m, roomId, Envelope("room_users", roomId, "", userList, <<>>), {})

\* ------------------------------------------- ChatManager: rooms and sessions
leaveRoom(m, sessionId, roomId) ==
  LET i == SessionIdx(m, sessionId) IN
  IF i = 0 \/ roomId \notin DOMAIN m.rooms THEN m
  ELSE LET session == m.sessions[i]
           m1 == [m EXCEPT !.rooms[roomId].users = @ \ {session.userId},
                           !.sessions[i].currentRoom = NoRoom]
           m2 == broadcastToRoom(m1, roomId,
                    Envelope("user_left", "", session.username, {}, <<>>), {})
       IN broadcastRoomUsers(m2, roomId)

\* joinRoom as it would be if the previous room were left after the join
joinRoomLeavesLast(m, sessionId, roomId) ==
  LET i == SessionIdx(m, sessionId) IN
  IF i = 0 \/ roomId \notin DOMAIN m.rooms THEN [m EXCEPT !.result = FALSE]
  ELSE LET session == m.sessions[i]
           m1 == [m EXCEPT !.rooms[roomId].users = @ \cup {session.userId},
                           !.sessions[i].currentRoom = roomId]
           m2 == broadcastRoomUsers(broadcastToRoom(m1, roomId,
                    Envelope("user_joined", "", session.username, {}, <<>>), {}), roomId)
           m3 == IF session.currentRoom # NoRoom
                 THEN leaveRoom(m2, sessionId, session.currentRoom)
                 ELSE m2
       IN [m3 EXCEPT !.sessions[i].currentRoom = roomId, !.result = TRUE]

\* joinRoom as it would be if the room were looked up only after the leave
joinRoomLeavesBeforeCheck(m, sessionId, roomId) ==
  LET i == SessionIdx(m, sessionId) IN
  IF i = 0 THEN [m EXCEPT !.result = FALSE]
  ELSE LET session == m.sessions[i]
           m1 == IF session.currentRoom # NoRoom
                 THEN leaveRoom(m, sessionId, session.currentRoom)
                 ELSE m
       IN IF roomId \notin DOMAIN m.rooms THEN [m1 EXCEPT !.result = FALSE]
          ELSE LET m2 == [m1 EXCEPT !.rooms[roomId].users = @ \cup {session.userId},
                                    !.sessions[i].currentRoom = roomId]
                   m3 == broadcastToRoom(m2, roomId,
                            Envelope("user_joined", "", session.username, {}, <<>>), {})
               IN [broadcastRoomUsers(m3, roomId) EXCEPT !.result = TRUE]

joinRoom(m, sessionId, roomId) ==
  LET i == SessionIdx(m, sessionId) IN
  IF i = 0 \/ roomId \notin DOMAIN m.rooms THEN [m EXCEPT !.result = FALSE]
  ELSE LET session == m.sessions[i]
           m1 == IF session.currentRoom # NoRoom
                 THEN leaveRoom(m, sessionId, session.currentRoom)
                 ELSE m
           m2 == [m1 EXCEPT !.rooms[roomId].users = @ \cup {session.userId},
                            !.sessions[i].currentRoom = roomId]
           m3 == broadcastToRoom(m2, roomId,
                    Envelope("user_joined", "", session.username, {}, <<>>), {})
       IN [broadcastRoomUsers(m3, roomId) EXCEPT !.result = TRUE]

\* removeSession as it would be without the leaveRoom call
removeSessionNoLeave(m, sessionId) ==
  LET i == SessionIdx(m, sessionId)
  IN IF i = 0 THEN m ELSE [m EXCEPT !.sessions = RemoveAt(@, i)]

removeSession(m, sessionId) ==
  LET i == SessionIdx(m, sessionId)
      m1 == IF i # 0 /\ m.sessions[i].currentRoom # NoRoom
            THEN leaveRoom(m, sessionId, m.sessions[i].currentRoom)
            ELSE m
  IN IF i = 0 THEN m1 ELSE [m1 EXCEPT !.sessions = RemoveAt(@, i)]

findSessionByWs(m, ws) ==
  LET i == FirstIdx({j \in 1..Len(m.sessions) : m.sessions[j].ws = ws})
  IN IF i = 0 THEN NoSession ELSE m.sessions[i].id

getRoomMessages(m, roomId, limit) ==
  IF roomId \notin DOMAIN m.rooms THEN <<>>
  ELSE SliceLast(m.rooms[roomId].messages, limit)

\* --------------------------------------------------- ChatManager: messages
\* sendMessage as it would be if a session without a room posted to 'general'
sendMessageDefaultRoom(m, sessionId, content) ==
  LET i == SessionIdx(m, sessionId) IN
  IF i = 0 THEN [m EXCEPT !.result = FALSE]
  ELSE LET session == m.sessions[i]
           roomId == IF session.currentRoom = NoRoom THEN "general" ELSE session.currentRoom
           message == [id |-> m.nextMsgId, content |-> content,
                       userId |-> session.userId, username |-> session.username,
                       roomId |-> roomId, type |-> "message"]
           pushed == Append(m.rooms[roomId].messages, message)
           kept == IF Len(pushed) > RoomCap THEN SliceLast(pushed, RoomCap) ELSE pushed
           m1 == [m EXCEPT !.rooms[roomId].messages = kept, !.nextMsgId = @ + 1]
       IN [broadcastToRoom(m1, roomId,
              Envelope("message", roomId, session.username, {}, <<message>>), {})
           EXCEPT !.result = TRUE]

\* sendMessage as it would be with slice(0, 100) in place of slice(-100)
sendMessageKeepsOldest(m, sessionId, content) ==
  LET i == SessionIdx(m, sessionId) IN
  IF i = 0 \/ m.sessions[i].currentRoom = NoRoom THEN [m EXCEPT !.result = FALSE]
  ELSE LET session == m.sessions[i]
           roomId == session.currentRoom
           message == [id |-> m.nextMsgId, content |-> content,
                       userId |-> session.userId, username |-> session.username,
                       roomId |-> roomId, type |-> "message"]
           pushed == Append(m.rooms[roomId].messages, message)
           kept == IF Len(pushed) > RoomCap THEN SubSeq(pushed, 1, RoomCap) ELSE pushed
           m1 == [m EXCEPT !.rooms[roomId].messages = kept, !.nextMsgId = @ + 1]
       IN [broadcastToRoom(m1, roomId,
              Envelope("message", roomId, session.username, {}, <<message>>), {})
           EXCEPT !.result = TRUE]

\* sendMessage as it would be with unshift in place of push
sendMessagePrepends(m, sessionId, content) ==
  LET i == SessionIdx(m, sessionId) IN
  IF i = 0 \/ m.sessions[i].currentRoom = NoRoom THEN [m EXCEPT !.result = FALSE]
  ELSE LET session == m.sessions[i]
           roomId == session.currentRoom
           message == [id |-> m.nextMsgId, content |-> content,
                       userId |-> session.userId, username |-> session.username,
                       roomId |-> roomId, type |-> "message"]
           pushed == <<message>> \o m.rooms[roomId].messages
           kept == IF Len(pushed) > RoomCap THEN SliceLast(pushed, RoomCap) ELSE pushed
           m1 == [m EXCEPT !.rooms[roomId].messages = kept, !.nextMsgId = @ + 1]
       IN [broadcastToRoom(m1, roomId,
              Envelope("message", roomId, session.username, {}, <<message>>), {})
           EXCEPT !.result = TRUE]

sendMessage(m, sessionId, content) ==
  LET i == SessionIdx(m, sessionId) IN
  IF i = 0 \/ m.sessions[i].currentRoom = NoRoom THEN [m EXCEPT !.result = FALSE]
  ELSE IF m.sessions[i].currentRoom \notin DOMAIN m.rooms THEN [m EXCEPT !.result = FALSE]
  ELSE LET session == m.sessions[i]
           roomId == session.currentRoom
           message == [id |-> m.nextMsgId, content |-> content,
                       userId |-> session.userId, username |-> session.username,
                       roomId |-> roomId, type |-> "message"]
           pushed == Append(m.rooms[roomId].messages, message)
           kept == IF Len(pushed) > RoomCap THEN SliceLast(pushed, RoomCap) ELSE pushed
           m1 == [m EXCEPT !.rooms[roomId].messages = kept, !.nextMsgId = @ + 1]
       IN [broadcastToRoom(m1, roomId,
              Envelope("message", roomId, session.username, {}, <<message>>), {})
           EXCEPT !.result = TRUE]

\* ----------------------------------------------------- ChatManager: typing
TypingKey(userId, roomId) == <<userId, roomId>>

\* Map.set: an existing key keeps its place, a new key goes last
TypingSet(typing, entry) ==
  LET k == FirstIdx({j \in 1..Len(typing) : typing[j].key = entry.key})
  IN IF k = 0 THEN Append(typing, entry) ELSE [typing EXCEPT ![k] = entry]

TypingDelete(typing, key) == SelectSeq(typing, LAMBDA e : e.key # key)

\* startTyping as it would be without the exclusion list
startTypingNotifiesAll(m, sessionId, roomId) ==
  LET i == SessionIdx(m, sessionId) IN
  IF i = 0 THEN m
  ELSE LET session == m.sessions[i]
           m1 == [m EXCEPT !.typing = TypingSet(@,
                     [key |-> TypingKey(session.userId, roomId),
                      userId |-> session.userId, roomId |-> roomId,
                      timestamp |-> m.now])]
       IN broadcastToRoom(m1, roomId,
             Envelope("typing_start", "", session.username, {}, <<>>), {})

startTyping(m, sessionId, roomId) ==
  LET i == SessionIdx(m, sessionId) IN
  IF i = 0 THEN m
  ELSE LET session == m.sessions[i]
           m1 == [m EXCEPT !.typing = TypingSet(@,
                     [key |-> TypingKey(session.userId, roomId),
                      userId |-> session.userId, roomId |-> roomId,
                      timestamp |-> m.now])]
       IN broadcastToRoom(m1, roomId,
             Envelope("typing_start", "", session.username, {}, <<>>), {sessionId})

stopTyping(m, sessionId, roomId) ==
  LET i == SessionIdx(m, sessionId) IN
  IF i = 0 THEN m
  ELSE LET session == m.sessions[i]
           m1 == [m EXCEPT !.typing = TypingDelete(@, TypingKey(session.userId, roomId))]
       IN broadcastToRoom(m1, roomId,
             Envelope("typing_stop", "", session.username, {}, <<>>), {sessionId})

getUsernameById(m, userId) ==
  IF userId \in DOMAIN m.users THEN m.users[userId].username ELSE "Unknown"

\* the setInterval callback as it would be if the silence window were one sweep
\* interval longer
RECURSIVE SweepEntriesLate(_, _)
SweepEntriesLate(m, pending) ==
  IF pending = <<>> THEN m
  ELSE LET indicator == Head(pending)
           m1 == IF m.now - indicator.timestamp > TypingTimeout + SweepInterval
                 THEN broadcastToRoom(
                        [m EXCEPT !.typing = TypingDelete(@, indicator.key)],
                        indicator.roomId,
                        Envelope("typing_stop", "",
                                 getUsernameById(m, indicator.userId), {}, <<>>), {})
                 ELSE m
       IN SweepEntriesLate(m1, Tail(pending))

\* one run of the setInterval callback over the entries in `pending`
RECURSIVE SweepEntries(_, _)
SweepEntries(m, pending) ==
  IF pending = <<>> THEN m
  ELSE LET indicator == Head(pending)
           m1 == IF m.now - indicator.timestamp > TypingTimeout
                 THEN broadcastToRoom(
                        [m EXCEPT !.typing = TypingDelete(@, indicator.key)],
                        indicator.roomId,
                        Envelope("typing_stop", "",
                                 getUsernameById(m, indicator.userId), {}, <<>>), {})
                 ELSE m
       IN SweepEntries(m1, Tail(pending))

typingCleanup(m) == SweepEntries(m, m.typing)

\* --------------------------------------------------------- the event loop
\* The record kept of the event handled last: its kind, the connection and the
\* session it was for, its room argument, the session's room before it, what the
\* manager's method returned, whether an exception left the manager's method (for
\* open: the handler), and whether
\* the event is a leaveRoom call that repeats the call before it.
Op(op, ws, sid, roomId, prevRoom, result, raised) ==
  [op |-> op, ws |-> ws, sid |-> sid, roomId |-> roomId, prevRoom |-> prevRoom,
   result |-> result, raised |-> raised,
   repeat |-> op = lastOp.op /\ sid = lastOp.sid /\ roomId = lastOp.roomId
              /\ op \in {"leaveRoom"}]

CurrentRoomOf(sessionId) ==
  LET i == FirstIdx({j \in 1..Len(sessions) : sessions[j].id = sessionId})
  IN IF i = 0 THEN NoRoom ELSE sessions[i].currentRoom

\* ids of the 'message' envelopes of `out` that reached connection ws
DeliveredTo(ws, out) ==
  LET got == SelectSeq(out, LAMBDA w : w.to = ws /\ w.ok /\ w.env.type = "message")
  IN [i \in 1..Len(got) |-> got[i].env.message[1].id]

\* the manager's fields after an event, written back to the variables
Commit(m, op) ==
  /\ rooms' = m.rooms
  /\ users' = m.users
  /\ sessions' = m.sessions
  /\ typingIndicators' = m.typing
  /\ nextId' = m.nextId
  /\ nextMsgId' = m.nextMsgId
  /\ lastSent' = m.out
  /\ received' = [w \in Conns |-> received[w] \o DeliveredTo(w, m.out)]
  /\ lastOp' = op

RoomsList == Envelope("rooms_list", "", "", {}, <<>>)

\* websocket.open.  outcome "ok": the try block completes; "badUrl": new URL()
\* throws before any record is created; "sendThrows": the first ws.send throws
\* after the user and the session were created.  fallbackThrows: the ws.send of
\* the catch block throws as well.
WsOpen(ws, nameParam, isGuest, outcome, fallbackThrows) ==
  /\ conn[ws] = "idle"
  /\ \A w \in Conns : w < ws => conn[w] # "idle"
  /\ outcome = "ok" => ~fallbackThrows
  /\ LET username == IF nameParam = NoParam THEN "Anonymous" ELSE nameParam
         m0 == Manager({})
         m1 == createUser(m0, username, isGuest)
         m2 == createSession(m1, m0.nextId, username, ws, isGuest)
         tried == IF outcome = "badUrl" THEN m0
                  ELSE [m2 EXCEPT !.out = Append(@, [to |-> ws, sid |-> m1.nextId,
                                     env |-> RoomsList, ok |-> outcome = "ok"])]
         f1 == createUser(tried, "Anonymous", TRUE)
         f2 == createSession(f1, tried.nextId, "Anonymous", ws, TRUE)
         f3 == [f2 EXCEPT !.out = Append(@, [to |-> ws, sid |-> f1.nextId,
                                     env |-> RoomsList, ok |-> ~fallbackThrows]),
                          !.raised = fallbackThrows]
         m == IF outcome = "ok" THEN tried ELSE f3
     IN Commit(m, Op("open", ws, findSessionByWs(m, ws), "", NoRoom, TRUE, m.raised))
  /\ conn' = [conn EXCEPT ![ws] = "open"]
  /\ UNCHANGED <<now, ticks, cleanups, storeVars, shopVars, roomVars, lastCall>>

\* websocket.message, case 'join_room'
WsJoinRoom(ws, roomId, failing) ==
  /\ conn[ws] = "open"
  /\ LET m0 == Manager(failing)
         sessionId == findSessionByWs(m0, ws)
         joined == joinRoom(m0, sessionId, roomId)
         messages == getRoomMessages(joined, roomId, DefaultLimit)
         m == IF sessionId = NoSession THEN m0
              ELSE IF joined.result
              THEN [joined EXCEPT !.out = Append(@,
                      [to |-> ws, sid |-> sessionId,
                       env |-> Envelope("room_messages", roomId, "", {}, messages),
                       ok |-> ws \notin failing])]
              ELSE joined
     IN Commit(m, Op("join_room", ws, sessionId, roomId, CurrentRoomOf(sessionId),
                     sessionId # NoSession /\ m.result, m.raised))
  /\ UNCHANGED <<now, ticks, conn, cleanups, storeVars, shopVars, roomVars, lastCall>>

\* websocket.message, case 'send_message'
WsSendMessage(ws, content, failing) ==
  /\ conn[ws] = "open"
  /\ LET m0 == Manager(failing)
         sessionId == findSessionByWs(m0, ws)
         m == IF sessionId = NoSession THEN m0 ELSE sendMessage(m0, sessionId, content)
     IN Commit(m, Op("send_message", ws, sessionId, "", CurrentRoomOf(sessionId),
                     sessionId # NoSession /\ m.result, m.raised))
  /\ UNCHANGED <<now, ticks, conn, cleanups, storeVars, shopVars, roomVars, lastCall>>

\* websocket.message, case 'start_typing'
WsStartTyping(ws, roomId, failing) ==
  /\ conn[ws] = "open"
  /\ LET m0 == Manager(failing)
         sessionId == findSessionByWs(m0, ws)
         m == IF sessionId = NoSession THEN m0 ELSE startTyping(m0, sessionId, roomId)
     IN Commit(m, Op("start_typing", ws, sessionId, roomId, CurrentRoomOf(sessionId),
                     TRUE, m.raised))
  /\ UNCHANGED <<now, ticks, conn, cleanups, storeVars, shopVars, roomVars, lastCall>>

\* websocket.message, case 'stop_typing'
WsStopTyping(ws, roomId, failing) ==
  /\ conn[ws] = "open"
  /\ LET m0 == Manager(failing)
         sessionId == findSessionByWs(m0, ws)
         m == IF sessionId = NoSession THEN m0 ELSE stopTyping(m0, sessionId, roomId)
     IN Commit(m, Op("stop_typing", ws, sessionId, roomId, CurrentRoomOf(sessionId),
                     TRUE, m.raised))
  /\ UNCHANGED <<now, ticks, conn, cleanups, storeVars, shopVars, roomVars, lastCall>>

\* websocket.message with a payload that JSON.parse rejects, that lacks `data`,
\* or whose type no case matches: caught or ignored, nothing changes
WsBadMessage(ws) ==
  /\ conn[ws] = "open"
  /\ Commit(Manager({}), Op("bad_message", ws, findSessionByWs(Manager({}), ws), "",
                            NoRoom, TRUE, FALSE))
  /\ UNCHANGED <<now, ticks, conn, cleanups, storeVars, shopVars, roomVars, lastCall>>

\* websocket.close
WsClose(ws, failing) ==
  /\ conn[ws] = "open"
  /\ LET m0 == Manager(failing)
         sessionId == findSessionByWs(m0, ws)
         m == IF sessionId # NoSession THEN removeSession(m0, sessionId) ELSE m0
     IN /\ Commit(m, Op("close", ws, sessionId, "", CurrentRoomOf(sessionId), TRUE,
                        m.raised))
        /\ cleanups' = [cleanups EXCEPT ![ws] = @ + (IF sessionId # NoSession THEN 1 ELSE 0)]
  /\ conn' = [conn EXCEPT ![ws] = "closed"]
  /\ UNCHANGED <<now, ticks, storeVars, shopVars, roomVars, lastCall>>

\* the setInterval callback of startTypingCleanup; it is due once per SweepInterval
SweepTick(failing) ==
  /\ ticks < MaxTicks
  /\ now >= (ticks + 1) * SweepInterval
  /\ LET m == typingCleanup(Manager(failing))
     IN Commit(m, Op("tick", 0, NoSession, "", NoRoom, TRUE, m.raised))
  /\ ticks' = ticks + 1
  /\ UNCHANGED <<now, conn, cleanups, storeVars, shopVars, roomVars, lastCall>>

\* time passes; a due tick runs before more time passes
Advance ==
  /\ typingIndicators # <<>>
  /\ now < (ticks + 1) * SweepInterval
  /\ now + SweepInterval <= MaxTicks * SweepInterval
  /\ now' = now + SweepInterval
  /\ UNCHANGED <<rooms, users, sessions, typingIndicators, nextId, nextMsgId, ticks,
                 conn, cleanups, received, lastOp, lastSent, storeVars, shopVars, roomVars,
                 lastCall>>

\* time passes by half a sweep interval; a due tick runs before more time passes
Elapse ==
  /\ typingIndicators # <<>>
  /\ now < (ticks + 1) * SweepInterval
  /\ now + SweepInterval \div 2 <= MaxTicks * SweepInterval
  /\ now' = now + SweepInterval \div 2
  /\ UNCHANGED <<rooms, users, sessions, typingIndicators, nextId, nextMsgId, ticks,
                 conn, cleanups, received, lastOp, lastSent, storeVars, shopVars, roomVars,
                 lastCall>>

\* ---------------------------------------- ChatManager called method by method
SessionArgs == {i \in 0..(nextId - 1) : i % 2 = 0}  \* 0 and every session id handed out

\* what websocket.open does with the manager: createUser, then createSession
ApiConnect(ws, nameParam, isGuest) ==
  /\ conn[ws] = "idle"
  /\ \A w \in Conns : w < ws => conn[w] # "idle"
  /\ LET m0 == Manager({})
         m1 == createUser(m0, nameParam, isGuest)
         m == createSession(m1, m0.nextId, nameParam, ws, isGuest)
     IN Commit(m, Op("createSession", ws, m1.nextId, "", NoRoom, TRUE, FALSE))
  /\ conn' = [conn EXCEPT ![ws] = "open"]
  /\ UNCHANGED <<now, ticks, cleanups, storeVars, shopVars, roomVars, lastCall>>

ApiJoinRoom(sessionId, roomId) ==
  /\ LET m == joinRoom(Manager({}), sessionId, roomId)
     IN Commit(m, Op("joinRoom", 0, sessionId, roomId, CurrentRoomOf(sessionId),
                     m.result, FALSE))
  /\ UNCHANGED <<now, ticks, conn, cleanups, storeVars, shopVars, roomVars, lastCall>>

ApiLeaveRoom(sessionId, roomId) ==
  /\ LET m == leaveRoom(Manager({}), sessionId, roomId)
     IN Commit(m, Op("leaveRoom", 0, sessionId, roomId, CurrentRoomOf(sessionId),
                     TRUE, FALSE))
  /\ UNCHANGED <<now, ticks, conn, cleanups, storeVars, shopVars, roomVars, lastCall>>

ApiRemoveSession(sessionId) ==
  /\ LET m == removeSession(Manager({}), sessionId)
     IN Commit(m, Op("removeSession", 0, sessionId, "", CurrentRoomOf(sessionId),
                     TRUE, FALSE))
  /\ UNCHANGED <<now, ticks, conn, cleanups, storeVars, shopVars, roomVars, lastCall>>

ApiSendMessage(sessionId, content) ==
  /\ LET m == sendMessage(Manager({}), sessionId, content)
     IN Commit(m, Op("sendMessage", 0, sessionId, "", CurrentRoomOf(sessionId),
                     m.result, FALSE))
  /\ UNCHANGED <<now, ticks, conn, cleanups, storeVars, shopVars, roomVars, lastCall>>

\* ------------------------------------------------------------ MessageStore
\* the list after cleanupOldMessages: splice(0, length - maxMessages) drops the head
cleanupOldMessages(list, maxMessages) ==
  IF Len(list) > maxMessages
  THEN SubSeq(list, Len(list) - maxMessages + 1, Len(list))
  ELSE list

\* cleanupOldMessages as it would be without the forEach that deletes from
\* messageIndex
EvictedIdsKept(list, maxMessages) == {}

\* the ids cleanupOldMessages deletes from messageIndex
EvictedIds(list, maxMessages) ==
  IF Len(list) > maxMessages
  THEN {list[i].id : i \in 1..(Len(list) - maxMessages)}
  ELSE {}

StoreList(roomId) ==
  IF roomId \in DOMAIN storeMessages THEN storeMessages[roomId] ELSE <<>>

\* the record kept of the MessageStore call (or history query) made last
StoreCall(op, id, roomId, userId, limit, moderator, success, error, value) ==
  [op |-> op, id |-> id, roomId |-> roomId, userId |-> userId, limit |-> limit,
   moderator |-> moderator, success |-> success, error |-> error, value |-> value]

addMessage(roomId, userId, content, type) ==
  LET message == [id |-> storeNextId, roomId |-> roomId, userId |-> userId,
                  content |-> content, type |-> type, timestamp |-> now,
                  edited |-> <<>>, reactions |-> <<>>]
      pushed == Append(StoreList(roomId), message)
      indexed == (DOMAIN messageIndex \cup {message.id}) \ EvictedIds(pushed, StoreCap)
  IN /\ storeMessages' = [r \in DOMAIN storeMessages \cup {roomId} |->
                            IF r = roomId THEN cleanupOldMessages(pushed, StoreCap)
                            ELSE storeMessages[r]]
     /\ messageIndex' = [i \in indexed |->
                           IF i = message.id THEN message ELSE messageIndex[i]]
     /\ storeNextId' = storeNextId + 1
     /\ lastCall' = StoreCall("addMessage", message.id, roomId, userId, 0, FALSE, TRUE, "",
                              <<message>>)
     /\ UNCHANGED <<chatVars, roomVars, shopVars>>

\* messages.get(roomId) || [], cut at `before` (an id, NoMessage when not given),
\* then slice(-limit)
getMessages(roomId, limit, before) ==
  LET roomMessages == StoreList(roomId)
      beforeIndex == FirstIdx({j \in 1..Len(roomMessages) :
                                 roomMessages[j].id = before}) - 1
      messages == IF before # NoMessage /\ beforeIndex > 0
                  THEN SubSeq(roomMessages, 1, beforeIndex)
                  ELSE roomMessages
  IN SliceLast(messages, limit)

\* a call of getMessages; it changes nothing
StoreGetMessages(roomId, limit, before) ==
  /\ lastCall' = StoreCall("getMessages", before, roomId, 0, limit, FALSE, TRUE, "",
                           getMessages(roomId, limit, before))
  /\ UNCHANGED <<chatVars, storeVars, shopVars, roomVars>>

\* the lists after a field of the message object with this id was assigned: the
\* lists and the index hold the same object
WithObject(lists, message) ==
  [r \in DOMAIN lists |->
     [i \in 1..Len(lists[r]) |->
        IF lists[r][i].id = message.id THEN message ELSE lists[r][i]]]

StoreFail(op, messageId, userId, moderator, error) ==
  /\ lastCall' = StoreCall(op, messageId, "", userId, 0, moderator, FALSE, error, <<>>)
  /\ UNCHANGED <<storeVars, shopVars, chatVars, roomVars>>

\* editMessage as it would be with timeDiff >= 300000 as the test of the window
editMessageWindowExclusive(messageId, userId, newContent) ==
  IF messageId \notin DOMAIN messageIndex
  THEN StoreFail("editMessage", messageId, userId, FALSE, "Message not found")
  ELSE LET message == messageIndex[messageId] IN
    IF message.userId # userId
    THEN StoreFail("editMessage", messageId, userId, FALSE, "Can only edit your own messages")
    ELSE IF message.type # "text"
    THEN StoreFail("editMessage", messageId, userId, FALSE, "Can only edit text messages")
    ELSE IF now - message.timestamp >= EditWindow
    THEN StoreFail("editMessage", messageId, userId, FALSE,
                   "Can only edit messages within 5 minutes")
    ELSE LET edited == [message EXCEPT !.content = newContent, !.edited = <<now>>]
         IN /\ messageIndex' = [messageIndex EXCEPT ![messageId] = edited]
            /\ storeMessages' = WithObject(storeMessages, edited)
            /\ lastCall' = StoreCall("editMessage", messageId, "", userId, 0, FALSE,
                                     TRUE, "", <<>>)
            /\ UNCHANGED <<storeNextId, chatVars, roomVars, shopVars>>

editMessage(messageId, userId, newContent) ==
  IF messageId \notin DOMAIN messageIndex
  THEN StoreFail("editMessage", messageId, userId, FALSE, "Message not found")
  ELSE LET message == messageIndex[messageId] IN
    IF message.userId # userId
    THEN StoreFail("editMessage", messageId, userId, FALSE, "Can only edit your own messages")
    ELSE IF message.type # "text"
    THEN StoreFail("editMessage", messageId, userId, FALSE, "Can only edit text messages")
    ELSE IF now - message.timestamp > EditWindow
    THEN StoreFail("editMessage", messageId, userId, FALSE,
                   "Can only edit messages within 5 minutes")
    ELSE LET edited == [message EXCEPT !.content = newContent, !.edited = <<now>>]
         IN /\ messageIndex' = [messageIndex EXCEPT ![messageId] = edited]
            /\ storeMessages' = WithObject(storeMessages, edited)
            /\ lastCall' = StoreCall("editMessage", messageId, "", userId, 0, FALSE,
                                     TRUE, "", <<>>)
            /\ UNCHANGED <<storeNextId, chatVars, roomVars, shopVars>>

\* message.reactions is a Map from emoji to an array of user ids: a sequence of
\* entries in insertion order. The place of an emoji in it, 0 when reactions.has
\* is false
ReactionIdx(reactions, emoji) ==
  FirstIdx({i \in 1..Len(reactions) : reactions[i].emoji = emoji})

\* the reactions after addReaction's body: the entry is created empty when the
\* emoji is new, and the user pushed unless users.includes(userId)
AddedReaction(reactions, userId, emoji) ==
  LET withEntry == IF ReactionIdx(reactions, emoji) = 0
                   THEN Append(reactions, [emoji |-> emoji, users |-> <<>>])
                   ELSE reactions
      i == ReactionIdx(withEntry, emoji)
  IN IF userId \in Range(withEntry[i].users)
     THEN withEntry
     ELSE [withEntry EXCEPT ![i].users = Append(@, userId)]

\* removeReaction's body as it would be without reactions.delete(emoji)
RemovedReactionKeepsEntry(reactions, userId, emoji) ==
  LET i == ReactionIdx(reactions, emoji)
  IN IF i = 0 THEN reactions
     ELSE LET emojiUsers == reactions[i].users
              index == FirstIdx({j \in 1..Len(emojiUsers) : emojiUsers[j] = userId})
          IN IF index = 0 THEN reactions
             ELSE [reactions EXCEPT ![i].users = RemoveAt(emojiUsers, index)]

\* the reactions after removeReaction's body: the user is spliced out of the
\* emoji's array and the entry deleted when that leaves it empty
RemovedReaction(reactions, userId, emoji) ==
  LET i == ReactionIdx(reactions, emoji)
  IN IF i = 0 THEN reactions
     ELSE LET emojiUsers == reactions[i].users
              index == FirstIdx({j \in 1..Len(emojiUsers) : emojiUsers[j] = userId})
          IN IF index = 0 THEN reactions
             ELSE IF Len(emojiUsers) = 1
                  THEN RemoveAt(reactions, i)
                  ELSE [reactions EXCEPT ![i].users = RemoveAt(emojiUsers, index)]

\* what addReaction and removeReaction do once the reactions are computed
React(op, messageId, userId, emoji, reactions) ==
  LET reacted == [messageIndex[messageId] EXCEPT !.reactions = reactions]
  IN /\ messageIndex' = [messageIndex EXCEPT ![messageId] = reacted]
     /\ storeMessages' = WithObject(storeMessages, reacted)
     /\ lastCall' = StoreCall(op, messageId, "", userId, 0, FALSE, TRUE, "", <<emoji>>)
     /\ UNCHANGED <<storeNextId, chatVars, roomVars, shopVars>>

addReaction(messageId, userId, emoji) ==
  IF messageId \notin DOMAIN messageIndex
  THEN StoreFail("addReaction", messageId, userId, FALSE, "Message not found")
  ELSE React("addReaction", messageId, userId, emoji,
             AddedReaction(messageIndex[messageId].reactions, userId, emoji))

removeReaction(messageId, userId, emoji) ==
  IF messageId \notin DOMAIN messageIndex
  THEN StoreFail("removeReaction", messageId, userId, FALSE, "Message not found")
  ELSE React("removeReaction", messageId, userId, emoji,
             RemovedReaction(messageIndex[messageId].reactions, userId, emoji))

\* deleteMessage as it would be without the test of the requester
deleteMessageAnyUser(messageId, userId, isModeratorAction) ==
  IF messageId \notin DOMAIN messageIndex
  THEN StoreFail("deleteMessage", messageId, userId, isModeratorAction,
                 "Message not found")
  ELSE LET message == messageIndex[messageId]
           roomMessages == StoreList(message.roomId)
           index == FirstIdx({j \in 1..Len(roomMessages) :
                                roomMessages[j].id = messageId})
       IN /\ storeMessages' =
               IF message.roomId \in DOMAIN storeMessages /\ index # 0
               THEN [storeMessages EXCEPT ![message.roomId] = RemoveAt(@, index)]
               ELSE storeMessages
          /\ messageIndex' = [i \in DOMAIN messageIndex \ {messageId} |->
                                messageIndex[i]]
          /\ lastCall' = StoreCall("deleteMessage", messageId, "", userId, 0,
                                   isModeratorAction, TRUE, "", <<>>)
          /\ UNCHANGED <<storeNextId, chatVars, roomVars, shopVars>>

deleteMessage(messageId, userId, isModeratorAction) ==
  IF messageId \notin DOMAIN messageIndex
  THEN StoreFail("deleteMessage", messageId, userId, isModeratorAction, "Message not found")
  ELSE LET message == messageIndex[messageId] IN
    IF ~isModeratorAction /\ message.userId # userId
    THEN StoreFail("deleteMessage", messageId, userId, isModeratorAction,
                   "Can only delete your own messages")
    ELSE LET roomMessages == StoreList(message.roomId)
             index == FirstIdx({j \in 1..Len(roomMessages) :
                                  roomMessages[j].id = messageId})
         IN /\ storeMessages' =
                 IF message.roomId \in DOMAIN storeMessages /\ index # 0
                 THEN [storeMessages EXCEPT ![message.roomId] = RemoveAt(@, index)]
                 ELSE storeMessages
            /\ messageIndex' = [i \in DOMAIN messageIndex \ {messageId} |->
                                  messageIndex[i]]
            /\ lastCall' = StoreCall("deleteMessage", messageId, "", userId, 0,
                                     isModeratorAction, TRUE, "", <<>>)
            /\ UNCHANGED <<storeNextId, chatVars, roomVars, shopVars>>

\* ChatManager.getRoomMessages called with an explicit limit; it changes nothing
ApiGetRoomMessages(roomId, limit) ==
  /\ lastCall' = StoreCall("getRoomMessages", NoMessage, roomId, 0, limit, FALSE, TRUE, "",
                           getRoomMessages(Manager({}), roomId, limit))
  /\ UNCHANGED <<chatVars, storeVars, shopVars, roomVars>>

\* the clock of the message store moves on by d ms
StoreWait(d) ==
  /\ now' = now + d
  /\ UNCHANGED <<rooms, users, sessions, typingIndicators, nextId, nextMsgId, ticks,
                 conn, cleanups, received, lastOp, lastSent, storeVars, shopVars, roomVars,
                 lastCall>>

\* ------------------------------------------------------------- RoomManager
\* A room of RoomManager: its creator, its optional occupancy limit (0 when
\* maxUsers is undefined; no method assigns it), its members and its moderators.
\* name, description, isPrivate and createdAt are stored and read by no method
\* modelled here.
StoreRoom(id, createdBy) ==
  [id |-> id, createdBy |-> createdBy, maxUsers |-> 0, users |-> {},
   moderators |-> {createdBy}]

rmCreateDefaultRooms ==
  [r \in {"general", "random"} |-> StoreRoom(r, "system")]

\* the record kept of the RoomManager call made last
RoomCall(op, roomId, userId, requesterId, success, error) ==
  [op |-> op, roomId |-> roomId, userId |-> userId, requesterId |-> requesterId,
   success |-> success, error |-> error]

RoomFail(op, roomId, userId, requesterId, error) ==
  /\ rmCall' = RoomCall(op, roomId, userId, requesterId, FALSE, error)
  /\ UNCHANGED <<rmRooms, rmNextId, chatVars, storeVars, shopVars, lastCall>>

RoomDone(op, roomId, userId, requesterId, after) ==
  /\ rmRooms' = after
  /\ rmCall' = RoomCall(op, roomId, userId, requesterId, TRUE, "")
  /\ UNCHANGED <<rmNextId, chatVars, storeVars, shopVars, lastCall>>

createRoom(createdBy) ==
  LET id == CreatedRoomIds[rmNextId]
  IN /\ rmRooms' = [r \in DOMAIN rmRooms \cup {id} |->
                      IF r = id THEN StoreRoom(id, createdBy) ELSE rmRooms[r]]
     /\ rmNextId' = rmNextId + 1
     /\ rmCall' = RoomCall("createRoom", id, "", createdBy, TRUE, "")
     /\ UNCHANGED <<chatVars, storeVars, shopVars, lastCall>>

isModerator(roomId, userId) ==
  roomId \in DOMAIN rmRooms /\ userId \in rmRooms[roomId].moderators

getUserRooms(userId) == {r \in DOMAIN rmRooms : userId \in rmRooms[r].users}

rmJoinRoom(roomId, userId) ==
  IF roomId \notin DOMAIN rmRooms
  THEN RoomFail("joinRoom", roomId, userId, "", "Room not found")
  ELSE LET room == rmRooms[roomId] IN
    IF room.maxUsers # 0 /\ Cardinality(room.users) >= room.maxUsers
    THEN RoomFail("joinRoom", roomId, userId, "", "Room is full")
    ELSE RoomDone("joinRoom", roomId, userId, "",
                  [rmRooms EXCEPT ![roomId].users = @ \cup {userId}])

rmLeaveRoom(roomId, userId) ==
  IF roomId \notin DOMAIN rmRooms
  THEN RoomFail("leaveRoom", roomId, userId, "", "Room not found")
  ELSE RoomDone("leaveRoom", roomId, userId, "",
                [rmRooms EXCEPT ![roomId].users = @ \ {userId}])

addModerator(roomId, userId, requesterId) ==
  IF roomId \notin DOMAIN rmRooms
  THEN RoomFail("addModerator", roomId, userId, requesterId, "Room not found")
  ELSE IF ~isModerator(roomId, requesterId) /\ rmRooms[roomId].createdBy # requesterId
  THEN RoomFail("addModerator", roomId, userId, requesterId,
                "Only moderators can add moderators")
  ELSE RoomDone("addModerator", roomId, userId, requesterId,
                [rmRooms EXCEPT ![roomId].moderators = @ \cup {userId}])

\* removeModerator as it would be without the test that protects the creator
removeModeratorAnyUser(roomId, userId, requesterId) ==
  IF roomId \notin DOMAIN rmRooms
  THEN RoomFail("removeModerator", roomId, userId, requesterId, "Room not found")
  ELSE IF rmRooms[roomId].createdBy # requesterId
  THEN RoomFail("removeModerator", roomId, userId, requesterId,
                "Only room creator can remove moderators")
  ELSE RoomDone("removeModerator", roomId, userId, requesterId,
                [rmRooms EXCEPT ![roomId].moderators = @ \ {userId}])

\* removeModerator as it would be with the rule of addModerator
removeModeratorByModerator(roomId, userId, requesterId) ==
  IF roomId \notin DOMAIN rmRooms
  THEN RoomFail("removeModerator", roomId, userId, requesterId, "Room not found")
  ELSE IF ~isModerator(roomId, requesterId) /\ rmRooms[roomId].createdBy # requesterId
  THEN RoomFail("removeModerator", roomId, userId, requesterId,
                "Only room creator can remove moderators")
  ELSE IF userId = rmRooms[roomId].createdBy
  THEN RoomFail("removeModerator", roomId, userId, requesterId,
                "Cannot remove room creator as moderator")
  ELSE RoomDone("removeModerator", roomId, userId, requesterId,
                [rmRooms EXCEPT ![roomId].moderators = @ \ {userId}])

removeModerator(roomId, userId, requesterId) ==
  IF roomId \notin DOMAIN rmRooms
  THEN RoomFail("removeModerator", roomId, userId, requesterId, "Room not found")
  ELSE IF rmRooms[roomId].createdBy # requesterId
  THEN RoomFail("removeModerator", roomId, userId, requesterId,
                "Only room creator can remove moderators")
  ELSE IF userId = rmRooms[roomId].createdBy
  THEN RoomFail("removeModerator", roomId, userId, requesterId,
                "Cannot remove room creator as moderator")
  ELSE RoomDone("removeModerator", roomId, userId, requesterId,
                [rmRooms EXCEPT ![roomId].moderators = @ \ {userId}])

\* deleteRoom as it would be without the test for the default rooms
deleteRoomAnyRoom(roomId, requesterId) ==
  IF roomId \notin DOMAIN rmRooms
  THEN RoomFail("deleteRoom", roomId, "", requesterId, "Room not found")
  ELSE IF rmRooms[roomId].createdBy # requesterId
  THEN RoomFail("deleteRoom", roomId, "", requesterId,
                "Only room creator can delete the room")
  ELSE RoomDone("deleteRoom", roomId, "", requesterId,
                [r \in DOMAIN rmRooms \ {roomId} |-> rmRooms[r]])

deleteRoom(roomId, requesterId) ==
  IF roomId \notin DOMAIN rmRooms
  THEN RoomFail("deleteRoom", roomId, "", requesterId, "Room not found")
  ELSE IF rmRooms[roomId].createdBy # requesterId
  THEN RoomFail("deleteRoom", roomId, "", requesterId,
                "Only room creator can delete the room")
  ELSE IF roomId \in {"general", "random"}
  THEN RoomFail("deleteRoom", roomId, "", requesterId, "Cannot delete default rooms")
  ELSE RoomDone("deleteRoom", roomId, "", requesterId,
                [r \in DOMAIN rmRooms \ {roomId} |-> rmRooms[r]])

\* ------------------------------------------------------------- e-commerce
ShopUsers == {"u1", "u2"}    \* customers
Admin == "admin"             \* the user seedData creates with role 'admin'
Requesters == ShopUsers \cup {Admin}
Role(userId) == IF userId = Admin THEN "admin" ELSE "customer"
ShopProducts == {"BK-001"}   \* the seeded product with the smallest inventory, by sku
NoProduct == "nosuch"        \* a product id that is not in the products map
NoOrder == 0                 \* no order id; metadata.orderId still 'pending'
validStatuses == {"pending", "confirmed", "processing", "shipped", "delivered", "cancelled"}

\* MemoryStore.seedData: the products and their inventory
seedData ==
  [p \in ShopProducts |->
     [inventory |-> IF p = "BK-001" THEN 25 ELSE 50, isActive |-> TRUE]]

\* no handler of the user is suspended
Idle == [at |-> "idle", orderItems |-> <<>>, paymentId |-> 0, orderId |-> NoOrder]

\* the response of a request: its route, who asked, the order or payment intent it is
\* about, the HTTP status and the error
ShopCall(op, userId, id, status, error) ==
  [op |-> op, userId |-> userId, id |-> id, status |-> status, error |-> error]

\* the MemoryStore and the PaymentService as the handlers below take and return them
Shop ==
  [products |-> products, cartItems |-> cartItems, orders |-> orders,
   paymentIntents |-> paymentIntents, suspended |-> suspended, call |-> shopCall]

Respond(s, op, userId, id, status, error) ==
  [s EXCEPT !.call = ShopCall(op, userId, id, status, error)]

ShopCommit(s) ==
  /\ products' = s.products
  /\ cartItems' = s.cartItems
  /\ orders' = s.orders
  /\ paymentIntents' = s.paymentIntents
  /\ suspended' = s.suspended
  /\ shopCall' = s.call
  /\ UNCHANGED <<chatVars, storeVars, roomVars, lastCall>>

\* the place of the product's item in a cart, 0 when there is none (a cart holds one
\* item per product, so the product stands for the item id)
CartIdx(userCart, productId) ==
  FirstIdx({j \in 1..Len(userCart) : userCart[j].productId = productId})

addToCart(s, userId, productId, quantity) ==
  LET i == CartIdx(s.cartItems[userId], productId)
  IN IF i # 0
     THEN [s EXCEPT !.cartItems[userId][i].quantity = @ + quantity]
     ELSE [s EXCEPT !.cartItems[userId] =
                      Append(@, [productId |-> productId, quantity |-> quantity])]

\* updateCartItem for an item that is in the cart
updateCartItem(s, userId, itemId, quantity) ==
  LET i == CartIdx(s.cartItems[userId], itemId)
  IN IF quantity <= 0
     THEN [s EXCEPT !.cartItems[userId] = RemoveAt(@, i)]
     ELSE [s EXCEPT !.cartItems[userId][i].quantity = quantity]

\* POST /api/cart/items
postCartItems(s, userId, productId, quantity) ==
  IF quantity <= 0
  THEN Respond(s, "POST /api/cart/items", userId, NoOrder, 400,
               "Quantity must be greater than 0")
  ELSE IF productId \notin DOMAIN s.products \/ ~s.products[productId].isActive
  THEN Respond(s, "POST /api/cart/items", userId, NoOrder, 404, "Product not found")
  ELSE IF s.products[productId].inventory < quantity
  THEN Respond(s, "POST /api/cart/items", userId, NoOrder, 400, "Insufficient inventory")
  ELSE Respond(addToCart(s, userId, productId, quantity),
               "POST /api/cart/items", userId, NoOrder, 201, "")

\* PUT /api/cart/items/:id
putCartItems(s, userId, itemId, quantity) ==
  IF quantity < 0
  THEN Respond(s, "PUT /api/cart/items", userId, NoOrder, 400,
               "Quantity cannot be negative")
  ELSE IF CartIdx(s.cartItems[userId], itemId) = 0
  THEN Respond(s, "PUT /api/cart/items", userId, NoOrder, 404, "Cart item not found")
  ELSE Respond(updateCartItem(s, userId, itemId, quantity),
               "PUT /api/cart/items", userId, NoOrder, 200, "")

\* the products after the loops that reserve (sign -1) or restore (sign 1) the
\* quantities of the items, one updateProduct per item whose product exists
RECURSIVE Adjusted(_, _, _)
Adjusted(prods, items, sign) ==
  IF items = <<>> THEN prods
  ELSE LET item == Head(items)
       IN Adjusted(IF item.productId \in DOMAIN prods
                   THEN [prods EXCEPT ![item.productId].inventory =
                                        @ + sign * item.quantity]
                   ELSE prods,
                   Tail(items), sign)

Unavailable(s, cartItem) ==
  \/ cartItem.productId \notin DOMAIN s.products
  \/ ~s.products[cartItem.productId].isActive

\* POST /api/orders up to its `await paymentService.createPaymentIntent(...)`: the
\* cart is checked item by item, the order items are copied from it and the payment
\* intent is registered; the handler keeps the cart array itself
beginOrder(s, userId) ==
  LET cart == s.cartItems[userId]
      bad == FirstIdx({j \in 1..Len(cart) :
                         \/ Unavailable(s, cart[j])
                         \/ s.products[cart[j].productId].inventory < cart[j].quantity})
  IN IF Len(cart) = 0
     THEN Respond(s, "POST /api/orders", userId, NoOrder, 400, "Cart is empty")
     ELSE IF bad # 0
     THEN Respond(s, "POST /api/orders", userId, NoOrder, 400,
                  IF Unavailable(s, cart[bad]) THEN "Product not found or unavailable"
                  ELSE "Insufficient inventory")
     ELSE [s EXCEPT
             !.paymentIntents = Append(@, [status |-> "requires_payment_method",
                                           orderId |-> NoOrder]),
             !.suspended[userId] = [at |-> "order", orderItems |-> cart,
                                  paymentId |-> Len(s.paymentIntents) + 1,
                                  orderId |-> NoOrder]]

\* POST /api/orders from the await on: createOrder, the intent's metadata, the
\* inventory reduced by the quantities the cart holds now, clearCart
resumeOrder(s, userId) ==
  LET handler == s.suspended[userId]
      orderId == Len(s.orders) + 1
  IN Respond([s EXCEPT
                !.orders = Append(@, [userId |-> userId, items |-> handler.orderItems,
                                      status |-> "pending",
                                      paymentId |-> handler.paymentId]),
                !.paymentIntents[handler.paymentId].orderId = orderId,
                !.products = Adjusted(@, s.cartItems[userId], -1),
                !.cartItems[userId] = <<>>,
                !.suspended[userId] = Idle],
             "POST /api/orders", userId, orderId, 201, "")

\* PaymentService.cancelPaymentIntent; the route does not look at its result
cancelPaymentIntent(intents, paymentIntentId) ==
  IF paymentIntentId \notin 1..Len(intents) THEN intents
  ELSE IF intents[paymentIntentId].status = "succeeded" THEN intents
  ELSE [intents EXCEPT ![paymentIntentId].status = "canceled"]

\* POST /api/orders/:id/cancel up to its `await paymentService.cancelPaymentIntent`
beginCancel(s, userId, id) ==
  IF id \notin 1..Len(s.orders)
  THEN Respond(s, "POST /api/orders/cancel", userId, id, 404, "Order not found")
  ELSE IF s.orders[id].userId # userId /\ Role(userId) # "admin"
  THEN Respond(s, "POST /api/orders/cancel", userId, id, 403, "Access denied")
  ELSE IF s.orders[id].status \in {"shipped", "delivered"}
  THEN Respond(s, "POST /api/orders/cancel", userId, id, 400,
               "Cannot cancel shipped or delivered orders")
  ELSE IF s.orders[id].status = "cancelled"
  THEN Respond(s, "POST /api/orders/cancel", userId, id, 400, "Order is already cancelled")
  ELSE [s EXCEPT
          !.paymentIntents = cancelPaymentIntent(@, s.orders[id].paymentId),
          !.suspended[userId] = [at |-> "cancel", orderItems |-> <<>>, paymentId |-> 0,
                               orderId |-> id]]

\* POST /api/orders/:id/cancel from the await on: the inventory restored, the
\* status set
resumeCancel(s, userId) ==
  LET id == s.suspended[userId].orderId
  IN Respond([s EXCEPT
                !.products = Adjusted(@, s.orders[id].items, 1),
                !.orders[id].status = "cancelled",
                !.suspended[userId] = Idle],
             "POST /api/orders/cancel", userId, id, 200, "")

\* PATCH /api/orders/:id/status
patchStatus(s, userId, id, status) ==
  IF Role(userId) # "admin"
  THEN Respond(s, "PATCH /api/orders/status", userId, id, 403, "Admin access required")
  ELSE IF status \notin validStatuses
  THEN Respond(s, "PATCH /api/orders/status", userId, id, 400, "Invalid status")
  ELSE IF id \notin 1..Len(s.orders)
  THEN Respond(s, "PATCH /api/orders/status", userId, id, 404, "Order not found")
  ELSE Respond([s EXCEPT !.orders[id].status = status],
               "PATCH /api/orders/status", userId, id, 200, "")

\* POST /api/payments/confirm with PaymentService.confirmPayment; isSuccess is
\* Math.random() > 0.1
postConfirm(s, userId, paymentIntentId, isSuccess) ==
  IF paymentIntentId \notin 1..Len(s.paymentIntents)
  THEN Respond(s, "POST /api/payments/confirm", userId, paymentIntentId, 400,
               "Payment intent not found")
  ELSE IF s.paymentIntents[paymentIntentId].status = "succeeded"
  THEN Respond(s, "POST /api/payments/confirm", userId, paymentIntentId, 400,
               "Payment already processed")
  ELSE IF s.paymentIntents[paymentIntentId].status = "canceled"
  THEN Respond(s, "POST /api/payments/confirm", userId, paymentIntentId, 400,
               "Payment was canceled")
  ELSE IF ~isSuccess
  THEN Respond(s, "POST /api/payments/confirm", userId, paymentIntentId, 400,
               "Payment failed - insufficient funds or card declined")
  ELSE LET orderId == s.paymentIntents[paymentIntentId].orderId
       IN Respond([s EXCEPT
                     !.paymentIntents[paymentIntentId].status = "succeeded",
                     !.orders = IF orderId \in 1..Len(@)
                                THEN [@ EXCEPT ![orderId].status = "confirmed"]
                                ELSE @],
                  "POST /api/payments/confirm", userId, paymentIntentId, 200, "")

\* the quantity of a product in a user's cart
CartQuantity(userId, productId) ==
  IF CartIdx(cartItems[userId], productId) = 0 THEN 0
  ELSE cartItems[userId][CartIdx(cartItems[userId], productId)].quantity

PostCartItems(userId, productId, quantity) ==
  /\ CartQuantity(userId, productId) + quantity <= MaxCartQty
  /\ ShopCommit(postCartItems(Shop, userId, productId, quantity))

PutCartItems(userId, itemId, quantity) ==
  /\ ShopCommit(putCartItems(Shop, userId, itemId, quantity))

\* a POST /api/orders request arrives and runs to its await, or to its 400 response
OrderBegin(userId) ==
  /\ suspended[userId].at = "idle"
  /\ Len(paymentIntents) < MaxOrders
  /\ ShopCommit(beginOrder(Shop, userId))

\* the suspended POST /api/orders handler of the user goes on to its response
OrderResume(userId) ==
  /\ suspended[userId].at = "order"
  /\ ShopCommit(resumeOrder(Shop, userId))

CancelBegin(userId, id) ==
  /\ suspended[userId].at = "idle"
  /\ ShopCommit(beginCancel(Shop, userId, id))

CancelResume(userId) ==
  /\ suspended[userId].at = "cancel"
  /\ ShopCommit(resumeCancel(Shop, userId))

\* POST /api/orders handled with no other request in between
PostOrders(userId) ==
  /\ suspended[userId].at = "idle"
  /\ Len(paymentIntents) < MaxOrders
  /\ LET s == beginOrder(Shop, userId)
     IN ShopCommit(IF s.suspended[userId].at = "order" THEN resumeOrder(s, userId) ELSE s)

\* POST /api/orders/:id/cancel handled with no other request in between
PostCancel(userId, id) ==
  /\ suspended[userId].at = "idle"
  /\ LET s == beginCancel(Shop, userId, id)
     IN ShopCommit(IF s.suspended[userId].at = "cancel" THEN resumeCancel(s, userId) ELSE s)

PatchStatus(userId, id, status) ==
  /\ ShopCommit(patchStatus(Shop, userId, id, status))

PostConfirm(userId, paymentIntentId, isSuccess) ==
  /\ ShopCommit(postConfirm(Shop, userId, paymentIntentId, isSuccess))

\* ------------------------------------------------------------------- runs
Init ==
  /\ rooms = createDefaultRooms
  /\ users = <<>>
  /\ sessions = <<>>
  /\ typingIndicators = <<>>
  /\ nextId = 1
  /\ nextMsgId = 1
  /\ now = 0
  /\ ticks = 0
  /\ conn = [w \in Conns |-> "idle"]
  /\ cleanups = [w \in Conns |-> 0]
  /\ received = [w \in Conns |-> <<>>]
  /\ lastOp = [op |-> "init", ws |-> 0, sid |-> NoSession, roomId |-> "",
               prevRoom |-> NoRoom, result |-> TRUE, raised |-> FALSE, repeat |-> FALSE]
  /\ lastSent = <<>>
  /\ storeMessages = <<>>
  /\ messageIndex = <<>>
  /\ storeNextId = 1
  /\ lastCall = StoreCall("none", NoMessage, "", 0, 0, FALSE, TRUE, "", <<>>)
  /\ rmRooms = rmCreateDefaultRooms
  /\ rmNextId = 1
  /\ rmCall = RoomCall("none", "", "", "", TRUE, "")
  /\ products = seedData
  /\ cartItems = [u \in Requesters |-> <<>>]
  /\ orders = <<>>
  /\ paymentIntents = <<>>
  /\ suspended = [u \in Requesters |-> Idle]
  /\ shopCall = ShopCall("none", "", NoOrder, 0, "")

OpenOutcomes == {"ok", "badUrl", "sendThrows"}
NoFailure == {{}}                              \* every ws.send succeeds
OneFailure == {{}} \cup {{w} : w \in Conns}    \* at most one connection's send throws

\* The server driven by its websocket handlers, every write succeeding after the
\* handshake: connections open (on all three paths of the open handler), join
\* rooms, send messages and close.
Next ==
  \/ \E ws \in Conns, n \in NameParams, g \in GuestParams, o \in OpenOutcomes,
        f \in BOOLEAN : WsOpen(ws, n, g, o, f)
  \/ \E ws \in Conns, r \in RoomInputs, failing \in NoFailure : WsJoinRoom(ws, r, failing)
  \/ \E ws \in Conns, c \in Contents, failing \in NoFailure :
        nextMsgId <= MaxMsgs /\ WsSendMessage(ws, c, failing)
  \/ \E ws \in Conns : WsBadMessage(ws)
  \/ \E ws \in Conns, failing \in NoFailure : WsClose(ws, failing)

Spec == Init /\ [][Next]_vars

\* a start_typing that would exceed MaxTyping pending indicators is not drawn
TypingRoom(ws, roomId) ==
  \/ Len(typingIndicators) < MaxTyping
  \/ \E e \in Range(typingIndicators) :
        e.key = TypingKey(findSessionByWs(Manager({}), ws) - 1, roomId)

\* Every event that broadcasts, with connection writes that may throw: joins and
\* re-joins of one room, sends, typing signals, closes and the sweeper's ticks.
NextFanout ==
  \/ \E ws \in Conns, n \in NameParams, g \in GuestParams : WsOpen(ws, n, g, "ok", FALSE)
  \/ \E ws \in Conns, failing \in OneFailure : WsJoinRoom(ws, "general", failing)
  \/ \E ws \in Conns, c \in Contents, failing \in OneFailure :
        nextMsgId <= MaxFanoutMsgs /\ WsSendMessage(ws, c, failing)
  \/ \E ws \in Conns, failing \in OneFailure :
        TypingRoom(ws, "general") /\ WsStartTyping(ws, "general", failing)
  \/ \E ws \in Conns, failing \in OneFailure : WsStopTyping(ws, "general", failing)
  \/ \E ws \in Conns, failing \in OneFailure : WsClose(ws, failing)
  \/ \E failing \in OneFailure : SweepTick(failing)
  \/ Advance

SpecFanout == Init /\ [][NextFanout]_vars

TypingRooms == {"general", "random"}

\* The typing signals on a clock that moves in half sweep intervals: sessions in
\* two rooms signal for either room, stop, leave and close, and the sweeper ticks.
NextTyping ==
  \/ \E ws \in Conns, n \in NameParams, g \in GuestParams : WsOpen(ws, n, g, "ok", FALSE)
  \/ \E ws \in Conns, r \in TypingRooms : WsJoinRoom(ws, r, {})
  \/ \E ws \in Conns, r \in TypingRooms :
        TypingRoom(ws, r) /\ WsStartTyping(ws, r, {})
  \/ \E ws \in Conns, r \in TypingRooms : WsStopTyping(ws, r, {})
  \/ \E ws \in Conns : WsClose(ws, {})
  \/ SweepTick({})
  \/ Elapse

SpecTyping == Init /\ [][NextTyping]_vars

\* ChatManager's methods called in any order with any arguments.
NextApi ==
  \/ \E ws \in Conns, n \in NameParams, g \in GuestParams : ApiConnect(ws, n, g)
  \/ \E sid \in SessionArgs, r \in RoomInputs : ApiJoinRoom(sid, r)
  \/ \E sid \in SessionArgs, r \in RoomInputs : ApiLeaveRoom(sid, r)
  \/ \E sid \in SessionArgs : ApiRemoveSession(sid)
  \/ \E sid \in SessionArgs, c \in Contents :
        nextMsgId <= MaxMsgs /\ ApiSendMessage(sid, c)

SpecApi == Init /\ [][NextApi]_vars

\* joinRoom called directly with any session id and through the join_room handler,
\* for known and unknown rooms, while connections open and close.
NextJoin ==
  \/ \E ws \in Conns, n \in NameParams, g \in GuestParams : ApiConnect(ws, n, g)
  \/ \E sid \in SessionArgs, r \in RoomInputs : ApiJoinRoom(sid, r)
  \/ \E ws \in Conns, r \in RoomInputs : WsJoinRoom(ws, r, {})
  \/ \E ws \in Conns : WsClose(ws, {})

SpecJoin == Init /\ [][NextJoin]_vars

Limits == 0..MaxLimit \cup {DefaultLimit}  \* the limits the history queries name

\* Histories that grow while they are queried: one connection joins rooms and
\* sends, the MessageStore adds, and both are asked for the most recent messages.
NextHistory ==
  \/ \E n \in NameParams, g \in GuestParams : WsOpen(1, n, g, "ok", FALSE)
  \/ \E r \in TypingRooms : WsJoinRoom(1, r, {})
  \/ \E c \in Contents : nextMsgId <= MaxHistory /\ WsSendMessage(1, c, {})
  \/ \E r \in RoomInputs, limit \in Limits : ApiGetRoomMessages(r, limit)
  \/ \E r \in TypingRooms, c \in Contents :
        storeNextId <= MaxHistory /\ addMessage(r, 1, c, "text")
  \/ \E r \in RoomInputs, limit \in Limits : StoreGetMessages(r, limit, NoMessage)

SpecHistory == Init /\ [][NextHistory]_vars

\* A MessageStore that grows in two rooms while pages of it are asked for: every
\* message id handed out, and one never handed out, is named as `before`, with the
\* limits above zero (limit 0 is the case of the query without `before`).
NextBefore ==
  \/ \E r \in TypingRooms, c \in Contents :
        storeNextId <= MaxHistory /\ addMessage(r, 1, c, "text")
  \/ \E r \in TypingRooms, limit \in Limits \ {0}, before \in 1..(MaxHistory + 1) :
        StoreGetMessages(r, limit, before)

SpecBefore == Init /\ [][NextBefore]_vars

StoreUsers == {1, 2}              \* the user ids the MessageStore calls name
MessageTypes == {"text", "system"}
NewContents == {"edited"}         \* the contents the edits put in
Minute == EditWindow \div 5
MessageArgs == 1..(MaxStoreMsgs + 1)  \* the ids handed out and one never handed out

\* the clock may go on by d when that leaves it within MaxJitter of a full minute
ClockMayPass(d) ==
  /\ (now + d) % Minute <= MaxJitter
  /\ now + d <= MaxMinutes * Minute + MaxJitter

\* The MessageStore used by two users over some minutes: they add text and system
\* messages, edit and delete their own and each other's, with and without the
\* moderator flag.
NextStore ==
  \/ \E u \in StoreUsers, c \in Contents, t \in MessageTypes :
        storeNextId <= MaxStoreMsgs /\ addMessage("general", u, c, t)
  \/ \E id \in MessageArgs, u \in StoreUsers, c \in NewContents : editMessage(id, u, c)
  \/ \E id \in MessageArgs, u \in StoreUsers, mod \in BOOLEAN : deleteMessage(id, u, mod)
  \/ \E d \in {1, Minute} : ClockMayPass(d) /\ StoreWait(d)

SpecStore == Init /\ [][NextStore]_vars

Emojis == {"+1", "heart"}  \* the emojis the reactions name

\* Two users react to the messages of a room: they add and remove two emojis, on
\* messages that are there, that were deleted and that never were.
NextReactions ==
  \/ \E u \in StoreUsers, c \in Contents :
        storeNextId <= MaxStoreMsgs /\ addMessage("general", u, c, "text")
  \/ \E id \in MessageArgs, u \in StoreUsers, e \in Emojis : addReaction(id, u, e)
  \/ \E id \in MessageArgs, u \in StoreUsers, e \in Emojis : removeReaction(id, u, e)
  \/ \E id \in MessageArgs, u \in StoreUsers : deleteMessage(id, u, FALSE)

SpecReactions == Init /\ [][NextReactions]_vars

EvictArgs == {1, 2}  \* the messages, the two oldest, that the calls name

\* the calls on the oldest messages come while the room is nearly empty or when it
\* is full, not during the flood between
CallsDue == storeNextId <= Cardinality(EvictArgs) + 1 \/ storeNextId > StoreCap

\* A room of the MessageStore that fills beyond its cap while its two oldest
\* messages are edited, reacted to and deleted, before and after their eviction.
NextEvict ==
  \/ storeNextId <= MaxStoreFlood /\ addMessage("general", 1, "hello", "text")
  \/ \E id \in EvictArgs : CallsDue /\ editMessage(id, 1, "edited")
  \/ \E id \in EvictArgs : CallsDue /\ addReaction(id, 1, "+1")
  \/ \E id \in EvictArgs : CallsDue /\ removeReaction(id, 1, "+1")
  \/ \E id \in EvictArgs : CallsDue /\ deleteMessage(id, 1, FALSE)

SpecEvict == Init /\ [][NextEvict]_vars

DefaultRooms == {"general", "random"}  \* the rooms deleteRoom protects
RoomUsers == {"system", "u1", "u2"}  \* the user ids the RoomManager calls name
RoomArgs == {"general", CreatedRoomIds[1], UnknownRoom}  \* the room ids they name

\* The RoomManager called in any order: rooms are created and deleted, users join
\* and leave, moderators are added and removed, by any requester.
NextRooms ==
  \/ \E u \in RoomUsers : rmNextId <= MaxRooms /\ createRoom(u)
  \/ \E r \in RoomArgs, u \in RoomUsers \ {"system"} : rmJoinRoom(r, u)
  \/ \E r \in RoomArgs, u \in RoomUsers \ {"system"} : rmLeaveRoom(r, u)
  \/ \E r \in RoomArgs, u, q \in RoomUsers : addModerator(r, u, q)
  \/ \E r \in RoomArgs, u, q \in RoomUsers : removeModerator(r, u, q)
  \/ \E r \in RoomArgs \cup DefaultRooms, q \in RoomUsers : deleteRoom(r, q)

SpecRooms == Init /\ [][NextRooms]_vars

Quantities == {25}          \* the quantities POST /api/cart/items names
NewQuantities == {0, 50}    \* the quantities PUT /api/cart/items/:id names
OrderArgs == 1..(MaxOrders + 1)  \* the order and intent ids handed out, and one more
StatusArgs == {"pending", "shipped", "cancelled", "refunded"}  \* statuses the admin names

\* Two customers shop at the same time: they fill and change their carts, place
\* orders and cancel them, and a handler that waits at its await lets the other
\* requests in.
NextCheckout ==
  \/ \E u \in ShopUsers, p \in ShopProducts, q \in Quantities : PostCartItems(u, p, q)
  \/ \E u \in ShopUsers, p \in ShopProducts, q \in NewQuantities : PutCartItems(u, p, q)
  \/ \E u \in ShopUsers : OrderBegin(u)
  \/ \E u \in ShopUsers : OrderResume(u)
  \/ \E u \in ShopUsers, id \in OrderArgs : CancelBegin(u, id)
  \/ \E u \in ShopUsers : CancelResume(u)

SpecCheckout == Init /\ [][NextCheckout]_vars

\* Orders placed, cancelled and moved through their statuses by the admin, one
\* request after the other.
NextOrders ==
  \/ \E u \in ShopUsers, p \in ShopProducts, q \in Quantities : PostCartItems(u, p, q)
  \/ \E u \in ShopUsers : PostOrders(u)
  \/ \E u \in Requesters, id \in OrderArgs :
        (\A p \in ShopProducts : products[p].inventory <= MaxStock) /\ PostCancel(u, id)
  \/ \E u \in {Admin, "u1"}, id \in OrderArgs, status \in StatusArgs :
        PatchStatus(u, id, status)

SpecOrders == Init /\ [][NextOrders]_vars

\* Orders placed, paid and cancelled, one request after the other.
NextPayments ==
  \/ \E u \in ShopUsers, p \in ShopProducts, q \in Quantities : PostCartItems(u, p, q)
  \/ \E u \in ShopUsers : PostOrders(u)
  \/ \E u \in ShopUsers, id \in OrderArgs, isSuccess \in BOOLEAN :
        PostConfirm(u, id, isSuccess)
  \/ \E u \in ShopUsers, id \in OrderArgs : PostCancel(u, id)

SpecPayments == Init /\ [][NextPayments]_vars

\* One connection that joins 'general' and keeps sending, and a MessageStore that
\* keeps adding to one room: the runs in which the history caps are reached.
NextCap ==
  \/ WsOpen(1, "Alice", FALSE, "ok", FALSE)
  \/ WsJoinRoom(1, "general", {}) /\ CurrentRoomOf(findSessionByWs(Manager({}), 1)) = NoRoom
  \/ nextMsgId <= MaxFlood /\ WsSendMessage(1, "hello", {})
  \/ storeNextId <= MaxStoreFlood /\ addMessage("general", 1, "hello", "text")

SpecCap == Init /\ [][NextCap]_vars

\* ------------------------------------------------------------- properties
SessionsIn(roomId) == {s \in Range(sessions) : s.currentRoom = roomId}

SessionIds == {s.id : s \in Range(sessions)}

\* C1: for every room R, R.users is exactly the set of userIds of the sessions
\* whose currentRoom is R, whatever joinRoom, leaveRoom (with any existing room
\* id) and removeSession calls were made.
MembersMatchSessions ==
  \A r \in RoomIds : rooms[r].users = {s.userId : s \in SessionsIn(r)}

\* the newest min(n, cap) of the messages 1..n, in send order
NewestOf(list, n, cap) ==
  LET k == IF n > cap THEN cap ELSE n
  IN Len(list) = k /\ \A i \in 1..k : list[i].id = n - k + i

\* C2: a room's stored history never exceeds its cap (100 in ChatManager, 1000 in
\* MessageStore); past the cap exactly the oldest messages are gone and the rest
\* keep their send order.
HistoryCapped ==
  /\ \A r \in RoomIds : Len(rooms[r].messages) <= RoomCap
  /\ \A r \in DOMAIN storeMessages : Len(storeMessages[r]) <= StoreCap
  /\ NewestOf(rooms["general"].messages, nextMsgId - 1, RoomCap)
  /\ NewestOf(StoreList("general"), storeNextId - 1, StoreCap)
  /\ DOMAIN messageIndex
       = {StoreList("general")[i].id : i \in 1..Len(StoreList("general"))}

\* 1001 adds to the store and more than 100 sends to the room have happened
HistoryCappedWitness ==
  /\ storeNextId - 1 = StoreCap + 1
  /\ Len(StoreList("general")) = StoreCap
  /\ StoreList("general")[1].id = 2
  /\ nextMsgId - 1 = RoomCap + 1
  /\ rooms["general"].messages[1].id = 2

\* C3: a leaveRoom that repeats the call before it (same session, same room)
\* changes no membership and no current room and sends no envelope.
SecondLeaveHasNoEffect ==
  [][(lastOp'.op = "leaveRoom" /\ lastOp'.repeat)
       => (rooms' = rooms /\ sessions' = sessions /\ lastSent' = <<>>)]_vars

\* C10: sendMessage for an unknown session id or for a session without a current
\* room returns false, appends to no history and sends nothing.
RoomlessSendRejected ==
  [][(lastOp'.op = "sendMessage"
        /\ (lastOp'.sid \notin SessionIds \/ CurrentRoomOf(lastOp'.sid) = NoRoom))
       => (~lastOp'.result /\ rooms' = rooms /\ lastSent' = <<>>
             /\ received' = received)]_vars

\* a known session without a room has just tried to send
RoomlessSendWitness ==
  /\ lastOp.op = "sendMessage"
  /\ lastOp.sid \in SessionIds
  /\ lastOp.prevRoom = NoRoom
  /\ ~lastOp.result

\* number of ws.send calls of `out` made for session sid with an envelope of `type`
WritesTo(out, sid, type) ==
  Cardinality({i \in 1..Len(out) : out[i].sid = sid /\ out[i].env.type = type})

RoomOf(sess, sessionId) ==
  LET i == FirstIdx({j \in 1..Len(sess) : sess[j].id = sessionId})
  IN IF i = 0 THEN NoRoom ELSE sess[i].currentRoom

UserOf(sess, sessionId) ==
  LET i == FirstIdx({j \in 1..Len(sess) : sess[j].id = sessionId})
  IN IF i = 0 THEN 0 ELSE sess[i].userId

Lists(env, userId) == \E x \in env.users : x.id = userId

\* C4: when a session in room A joins another room B, every envelope of the leave
\* (user_left, room_users for A without the user) is sent before any envelope of
\* the join (user_joined, room_users for B with the user).
RoomSwitchOrdered ==
  (lastOp.op = "join_room" /\ lastOp.result /\ lastOp.prevRoom # NoRoom
     /\ lastOp.prevRoom # lastOp.roomId)
  => LET A == lastOp.prevRoom
         B == lastOp.roomId
         u == UserOf(sessions, lastOp.sid)
         IsLeave(w) == \/ w.env.type = "user_left"
                       \/ w.env.type = "room_users" /\ w.env.roomId = A
         IsJoin(w) == \/ w.env.type = "user_joined"
                      \/ w.env.type = "room_users" /\ w.env.roomId = B
     IN /\ \A i, j \in 1..Len(lastSent) :
             IsLeave(lastSent[i]) /\ IsJoin(lastSent[j]) => i < j
        /\ \A i \in 1..Len(lastSent) :
             lastSent[i].env.type = "room_users"
               => (Lists(lastSent[i].env, u) <=> lastSent[i].env.roomId = B)
        /\ \A s \in SessionsIn(A) :
             WritesTo(lastSent, s.id, "user_left") = 1
               /\ WritesTo(lastSent, s.id, "room_users") = 1
        /\ \A s \in SessionsIn(B) :
             WritesTo(lastSent, s.id, "user_joined") = 1
               /\ WritesTo(lastSent, s.id, "room_users") = 1

\* a session has just moved from a room where another session stays to another room
RoomSwitchWitness ==
  /\ lastOp.op = "join_room" /\ lastOp.result
  /\ lastOp.prevRoom # NoRoom /\ lastOp.prevRoom # lastOp.roomId
  /\ SessionsIn(lastOp.prevRoom) # {}
  /\ \E i, j \in 1..Len(lastSent) :
        lastSent[i].env.type = "user_left" /\ lastSent[j].env.type = "user_joined"

\* the ws.send calls leaveRoom makes for a user leaving roomId, given the sessions
\* that stay: user_left to each, then room_users (without the user) to each
LeaveEnvelopes(out, sess, roomId, userId) ==
  LET stay == SelectSeq(sess, LAMBDA s : s.currentRoom = roomId)
      n == Len(stay)
  IN /\ Len(out) = 2 * n
     /\ \A i \in 1..n :
          /\ out[i].sid = stay[i].id /\ out[i].env.type = "user_left"
          /\ out[n + i].sid = stay[i].id /\ out[n + i].env.type = "room_users"
          /\ out[n + i].env.roomId = roomId
          /\ ~Lists(out[n + i].env, userId)

\* C5: closing a connection whose session is in room R performs the leave (user out
\* of R.users, user_left then room_users without the user to those who stay), then
\* deletes the session; afterwards nothing is written to a closed connection and
\* every member of every room is the user of a live session.
CloseLeavesThenDeletes ==
  [][/\ \A w \in Conns :
          (conn[w] = "open" /\ conn'[w] = "closed")
          => LET sid == lastOp'.sid
                 R == RoomOf(sessions, sid)
                 u == UserOf(sessions, sid)
             IN /\ sid \in SessionIds
                /\ sid \notin {s.id : s \in Range(sessions')}
                /\ \A r \in RoomIds : u \notin rooms'[r].users
                /\ R # NoRoom => LeaveEnvelopes(lastSent', sessions', R, u)
                /\ R = NoRoom => lastSent' = <<>>
     /\ \A i \in 1..Len(lastSent') : conn'[lastSent'[i].to] = "open"
     /\ \A r \in RoomIds : \A u \in rooms'[r].users :
          \E s \in Range(sessions') : s.userId = u /\ s.currentRoom = r
    ]_vars

\* a connection whose session shared a room with another session has just closed
CloseLeavesWitness ==
  /\ lastOp.op = "close"
  /\ lastOp.prevRoom # NoRoom
  /\ SessionsIn(lastOp.prevRoom) # {}
  /\ Len(lastSent) = 2

\* C6: once a connection's close event was handled, the cleanup ran exactly once
\* and no session record bound to that connection remains.
ClosedConnectionHasNoSession ==
  \A w \in Conns :
    conn[w] = "closed" => (cleanups[w] = 1 /\ \A s \in Range(sessions) : s.ws # w)

\* C8: a successful send_message writes exactly one 'message' envelope, carrying
\* the new message, to every session whose current room is the sender's room (the
\* sender included) and none to any other session.
SendReachesRoomOnly ==
  (lastOp.op = "send_message" /\ lastOp.result)
  => /\ \A s \in Range(sessions) :
          WritesTo(lastSent, s.id, "message")
            = (IF s.currentRoom = lastOp.prevRoom THEN 1 ELSE 0)
     /\ Len(lastSent) = Cardinality(SessionsIn(lastOp.prevRoom))
     /\ \A i \in 1..Len(lastSent) :
          /\ lastSent[i].env.type = "message"
          /\ lastSent[i].ok
          /\ lastSent[i].env.message[1].id = nextMsgId - 1
          /\ \E s \in SessionsIn(lastOp.prevRoom) :
               s.id = lastSent[i].sid /\ s.ws = lastSent[i].to
     /\ RoomOf(sessions, lastOp.sid) = lastOp.prevRoom

\* a message has just gone to two sessions of one room
SendReachesRoomWitness ==
  /\ lastOp.op = "send_message" /\ lastOp.result
  /\ Cardinality(SessionsIn(lastOp.prevRoom)) = 2
  /\ Len(lastSent) = 2

Increasing(ids) == \A i, j \in 1..Len(ids) : i < j => ids[i] < ids[j]

\* C9: message ids are handed out in the order the server handles the sends; every
\* connection receives the messages in that order and every room history stores
\* them in that order.
ReceiptOrderKept ==
  /\ \A w \in Conns : Increasing(received[w])
  /\ \A r \in RoomIds :
       Increasing([i \in 1..Len(rooms[r].messages) |-> rooms[r].messages[i].id])
  /\ \A w \in Conns : \A i \in 1..Len(received[w]) : received[w][i] < nextMsgId

\* two messages of one room were received by two connections
ReceiptOrderWitness ==
  \E r \in RoomIds :
    /\ Len(rooms[r].messages) = 2
    /\ \A w \in Conns : Len(received[w]) = 2

Expired(e) == now - e.timestamp > TypingTimeout

\* C7: a ws.send that throws for one recipient stops nothing: whatever event
\* triggered the broadcast, every session the broadcast is for has its ws.send
\* call made (so every recipient whose send does not throw receives the envelope),
\* the manager's method does not raise, and its state change is applied.  (A step
\* that leaves the clock alone is the handling of one event.)
FanoutSurvivesThrow ==
  [][now' = now =>
     LET op == lastOp'
         sess == Range(sessions')
         Members(r) == {s \in sess : s.currentRoom = r}
         Others(r) == {s \in Members(r) : s.id # op.sid}
         Sent(s, type) == WritesTo(lastSent', s.id, type)
     IN /\ ~op.raised
        /\ (op.op = "send_message" /\ op.result)
             => /\ \A s \in Members(op.prevRoom) : Sent(s, "message") = 1
                /\ rooms'[op.prevRoom].messages
                     = Append(rooms[op.prevRoom].messages,
                              rooms'[op.prevRoom].messages[Len(rooms'[op.prevRoom].messages)])
                /\ nextMsgId' = nextMsgId + 1
        /\ (op.op = "join_room" /\ op.result)
             => /\ RoomOf(sessions', op.sid) = op.roomId
                /\ UserOf(sessions', op.sid) \in rooms'[op.roomId].users
                /\ \A s \in Members(op.roomId) :
                     Sent(s, "user_joined") = 1 /\ Sent(s, "room_users") >= 1
                /\ op.prevRoom # NoRoom
                     => \A s \in Others(op.prevRoom) :
                          Sent(s, "user_left") = 1 /\ Sent(s, "room_users") = 2
        /\ (op.op = "close" /\ op.sid # NoSession)
             => /\ op.sid \notin {s.id : s \in sess}
                /\ \A r \in RoomIds : UserOf(sessions, op.sid) \notin rooms'[r].users
                /\ op.prevRoom # NoRoom
                     => \A s \in Members(op.prevRoom) :
                          Sent(s, "user_left") = 1 /\ Sent(s, "room_users") = 1
        /\ op.op = "start_typing"
             => /\ \E e \in Range(typingIndicators') :
                     /\ e.key = TypingKey(UserOf(sessions, op.sid), op.roomId)
                     /\ e.timestamp = now
                /\ \A s \in Others(op.roomId) : Sent(s, "typing_start") = 1
        /\ op.op = "stop_typing"
             => /\ \A e \in Range(typingIndicators') :
                     e.key # TypingKey(UserOf(sessions, op.sid), op.roomId)
                /\ \A s \in Others(op.roomId) : Sent(s, "typing_stop") = 1
        /\ op.op = "tick"
             => /\ \A e \in Range(typingIndicators') : ~Expired(e)
                /\ \A r \in RoomIds : \A s \in Members(r) :
                     Sent(s, "typing_stop")
                       = Cardinality({e \in Range(typingIndicators) :
                                        Expired(e) /\ e.roomId = r})
    ]_vars

\* in the event handled last a ws.send threw and a later ws.send of the same
\* broadcast went through
FanoutSurvivesWitness ==
  \E i, j \in 1..Len(lastSent) :
    /\ i < j
    /\ lastSent[i].env = lastSent[j].env
    /\ ~lastSent[i].ok
    /\ lastSent[j].ok

\* C11: start_typing from session S for room R writes one typing_start envelope
\* to every other session whose current room is R, none to S and none to any
\* session outside R.
TypingStartReachesOthers ==
  (lastOp.op = "start_typing" /\ lastOp.sid # NoSession)
  => /\ \A s \in Range(sessions) :
          WritesTo(lastSent, s.id, "typing_start")
            = (IF s.currentRoom = lastOp.roomId /\ s.id # lastOp.sid THEN 1 ELSE 0)
     /\ Len(lastSent) = Cardinality({s \in SessionsIn(lastOp.roomId) : s.id # lastOp.sid})
     /\ \A i \in 1..Len(lastSent) :
          /\ lastSent[i].env.type = "typing_start"
          /\ lastSent[i].ok
          /\ lastSent[i].sid # lastOp.sid
          /\ lastSent[i].to # lastOp.ws
          /\ lastSent[i].env.username = getUsernameById(Manager({}), UserOf(sessions, lastOp.sid))

\* a session has just signalled typing for its own room, where another session is
TypingStartWitness ==
  /\ lastOp.op = "start_typing"
  /\ RoomOf(sessions, lastOp.sid) = lastOp.roomId
  /\ Cardinality(SessionsIn(lastOp.roomId)) = 2
  /\ Len(lastSent) = 1

\* C12: a typing_stop notice, from stop_typing or from the sweeper, is written to
\* every session currently in the room, the typing user's session included.
TypingStopReachesRoom ==
  [][now' = now =>
     LET op == lastOp'
         Members(r) == {s \in Range(sessions') : s.currentRoom = r}
         Sent(s) == WritesTo(lastSent', s.id, "typing_stop")
     IN /\ (op.op = "stop_typing" /\ op.sid # NoSession)
             => \A s \in Members(op.roomId) : Sent(s) = 1
        /\ op.op = "tick"
             => \A r \in RoomIds : \A s \in Members(r) :
                  Sent(s) = Cardinality({e \in Range(typingIndicators) :
                                           Expired(e) /\ e.roomId = r})
    ]_vars

TypingKeys(typing) == {e.key : e \in Range(typing)}

\* C13: an indicator recorded at T that is neither refreshed nor stopped is removed
\* by the first tick later than T + 5 s, which comes no later than T + 5 s + one
\* sweep interval, with exactly one typing_stop to each session of its room; a tick
\* removes nothing younger; start_typing restarts the window; stop_typing removes
\* the indicator, so no tick sweeps it; no other event touches the indicators.
SweepWithinWindow ==
  [][/\ \A e \in Range(typingIndicators') :
          /\ now' - e.timestamp <= TypingTimeout + SweepInterval
          /\ now' - e.timestamp > TypingTimeout => ticks' * SweepInterval < now'
     /\ now' # now => typingIndicators' = typingIndicators
     /\ now' = now =>
          LET op == lastOp'
              key == TypingKey(UserOf(sessions, op.sid), op.roomId)
              swept == {e \in Range(typingIndicators) : Expired(e)}
          IN /\ op.op = "tick"
                  => /\ typingIndicators'
                          = SelectSeq(typingIndicators, LAMBDA e : ~Expired(e))
                     /\ \A s \in Range(sessions') :
                          WritesTo(lastSent', s.id, "typing_stop")
                            = Cardinality({e \in swept : e.roomId = s.currentRoom})
                     /\ \A i \in 1..Len(lastSent') :
                          lastSent'[i].env.type = "typing_stop"
             /\ (op.op = "start_typing" /\ op.sid # NoSession)
                  => /\ \E e \in Range(typingIndicators') :
                          e.key = key /\ e.timestamp = now'
                     /\ \A e \in Range(typingIndicators) :
                          e.key # key => e \in Range(typingIndicators')
                     /\ TypingKeys(typingIndicators')
                          = TypingKeys(typingIndicators) \cup {key}
             /\ (op.op = "stop_typing" /\ op.sid # NoSession)
                  => typingIndicators'
                       = SelectSeq(typingIndicators, LAMBDA e : e.key # key)
             /\ op.op \notin {"tick", "start_typing", "stop_typing"}
                  => typingIndicators' = typingIndicators
    ]_vars

\* the tick at 5 s + one sweep interval has just swept an indicator and told a session
SweepWitness ==
  /\ lastOp.op = "tick"
  /\ now = TypingTimeout + SweepInterval
  /\ typingIndicators = <<>>
  /\ \E i \in 1..Len(lastSent) : lastSent[i].env.type = "typing_stop"

JoinOps == {"joinRoom", "join_room"}

\* C14: a successful joinRoom for the room the session is already in is a no-op:
\* member sets and current rooms are unchanged and no user_left or user_joined
\* envelope is written.
RejoinIsNoOp ==
  [][(lastOp'.op \in JoinOps /\ lastOp'.result /\ lastOp'.prevRoom = lastOp'.roomId)
       => /\ rooms' = rooms
          /\ sessions' = sessions
          /\ \A i \in 1..Len(lastSent') :
               lastSent'[i].env.type \notin {"user_left", "user_joined"}]_vars

\* C15: joinRoom with an unknown room id or an unknown session id returns false
\* without raising and changes nothing: no session changes room, no member set
\* changes and nothing is written, not even the handler's room_messages.
FailedJoinChangesNothing ==
  [][(lastOp'.op \in JoinOps
        /\ (lastOp'.roomId \notin RoomIds \/ lastOp'.sid \notin SessionIds))
       => /\ ~lastOp'.result
          /\ ~lastOp'.raised
          /\ rooms' = rooms
          /\ sessions' = sessions
          /\ typingIndicators' = typingIndicators
          /\ lastSent' = <<>>
          /\ received' = received]_vars

\* a session that shares a room with another session has just asked, through the
\* handler, for a room that does not exist
FailedJoinWitness ==
  /\ lastOp.op = "join_room"
  /\ lastOp.roomId = UnknownRoom
  /\ ~lastOp.result
  /\ lastOp.prevRoom # NoRoom
  /\ RoomOf(sessions, lastOp.sid) = lastOp.prevRoom
  /\ Cardinality(SessionsIn(lastOp.prevRoom)) = 2

\* the most recent min(limit, Len(history)) messages of a history, in order
MostRecent(history, limit) ==
  LET k == IF limit < Len(history) THEN limit ELSE Len(history)
  IN SubSeq(history, Len(history) - k + 1, Len(history))

\* C16: for every room and every limit >= 0, getRoomMessages(roomId, limit) (and
\* MessageStore.getMessages without `before`) returns the most recent
\* min(limit, history length) messages of that room, in send order; an unknown room
\* gives the empty list; after one join and one send the default query returns
\* exactly that message with its content and author.
HistoryQueryNewest ==
  [][lastCall' # lastCall =>
       /\ lastCall'.op = "getRoomMessages"
            => /\ lastCall'.roomId \in RoomIds
                    => lastCall'.value
                         = MostRecent(rooms[lastCall'.roomId].messages, lastCall'.limit)
               /\ lastCall'.roomId \notin RoomIds => lastCall'.value = <<>>
               /\ (lastCall'.roomId \in RoomIds /\ nextMsgId = 2
                     /\ Len(rooms[lastCall'.roomId].messages) = 1
                     /\ lastCall'.limit = DefaultLimit)
                    => /\ Len(lastCall'.value) = 1
                       /\ lastCall'.value[1].content \in Contents
                       /\ lastCall'.value[1].username \in NameParams
                       /\ lastCall'.value[1].roomId = lastCall'.roomId
       /\ lastCall'.op = "getMessages"
            => lastCall'.value = MostRecent(StoreList(lastCall'.roomId), lastCall'.limit)
    ]_vars

WindowExpired == "Can only edit messages within 5 minutes"

\* C17: editMessage by the author of a text message succeeds, putting in the new
\* content and the edited timestamp, when no more than 5 minutes have passed since
\* the message was created; when more have passed it fails with the window-expired
\* reason and leaves the content and the edited timestamp as they were.
EditWindowEnforced ==
  [][(now' = now /\ lastCall'.op = "editMessage"
        /\ lastCall'.id \in DOMAIN messageIndex
        /\ messageIndex[lastCall'.id].userId = lastCall'.userId
        /\ messageIndex[lastCall'.id].type = "text")
       => LET id == lastCall'.id
              age == now - messageIndex[id].timestamp
          IN /\ age <= EditWindow
                  => /\ lastCall'.success
                     /\ messageIndex'[id].edited = <<now>>
                     /\ messageIndex'[id].content \in NewContents
                     /\ \A i \in 1..Len(StoreList(messageIndex[id].roomId)) :
                          storeMessages[messageIndex[id].roomId][i].id = id
                            => storeMessages'[messageIndex[id].roomId][i]
                                 = messageIndex'[id]
             /\ age > EditWindow
                  => /\ ~lastCall'.success
                     /\ lastCall'.error = WindowExpired
                     /\ messageIndex' = messageIndex
                     /\ storeMessages' = storeMessages]_vars

\* an edit one millisecond past the window has just been refused for a message
\* whose edit exactly at the end of the window had succeeded
EditWindowWitness ==
  /\ lastCall.op = "editMessage"
  /\ ~lastCall.success
  /\ lastCall.error = WindowExpired
  /\ lastCall.id \in DOMAIN messageIndex
  /\ now - messageIndex[lastCall.id].timestamp = EditWindow + 1
  /\ messageIndex[lastCall.id].edited = <<messageIndex[lastCall.id].timestamp + EditWindow>>

\* C18: an edit by a user who is not the author is refused; a delete is refused
\* unless the requester is the author or the call is a moderator action; every
\* refused edit or delete (unknown message, not authorized, not a text message,
\* window expired) gives a reason and leaves the lists and the index as they were;
\* a delete that succeeds removes the message from its list and from the index and
\* nothing else.
RefusedCallsChangeNothing ==
  [][(now' = now /\ lastCall'.op \in {"editMessage", "deleteMessage"})
       => LET c == lastCall'
              known == c.id \in DOMAIN messageIndex
              author == known /\ messageIndex[c.id].userId = c.userId
          IN /\ ~known => ~c.success
             /\ (c.op = "editMessage" /\ ~author) => ~c.success
             /\ (c.op = "editMessage" /\ known /\ messageIndex[c.id].type # "text")
                  => ~c.success
             /\ (c.op = "deleteMessage" /\ ~author /\ ~c.moderator) => ~c.success
             /\ (c.op = "deleteMessage" /\ known /\ (author \/ c.moderator))
                  => c.success
             /\ ~c.success
                  => /\ c.error # ""
                     /\ storeMessages' = storeMessages
                     /\ messageIndex' = messageIndex
             /\ (c.op = "deleteMessage" /\ c.success)
                  => /\ DOMAIN messageIndex' = DOMAIN messageIndex \ {c.id}
                     /\ \A i \in DOMAIN messageIndex' : messageIndex'[i] = messageIndex[i]
                     /\ \A r \in DOMAIN storeMessages :
                          storeMessages'[r]
                            = SelectSeq(storeMessages[r], LAMBDA x : x.id # c.id)]_vars

\* a user has just been refused the delete of another user's message, which is
\* still in its list and in the index
RefusedDeleteWitness ==
  /\ lastCall.op = "deleteMessage"
  /\ ~lastCall.success
  /\ lastCall.error = "Can only delete your own messages"
  /\ lastCall.id \in DOMAIN messageIndex
  /\ \E i \in 1..Len(StoreList("general")) : StoreList("general")[i].id = lastCall.id

\* C19: deleteRoom on 'general' or 'random' is refused for every requester and
\* changes nothing, so the default rooms are in the registry after any sequence of
\* RoomManager calls.
DefaultRoomsStay ==
  [][/\ DefaultRooms \subseteq DOMAIN rmRooms'
     /\ (rmCall'.op = "deleteRoom" /\ rmCall'.roomId \in DefaultRooms)
          => (~rmCall'.success /\ rmCall'.error # "" /\ rmRooms' = rmRooms)]_vars

\* the creator 'system' has just been refused the deletion of 'general', which has
\* a member and a moderator besides 'system'
DefaultRoomsWitness ==
  /\ rmCall.op = "deleteRoom"
  /\ rmCall.roomId = "general"
  /\ rmCall.requesterId = "system"
  /\ rmCall.error = "Cannot delete default rooms"
  /\ rmRooms["general"].users # {}
  /\ rmRooms["general"].moderators # {"system"}

ModerationOps == {"addModerator", "removeModerator", "deleteRoom"}

\* the call made last is a moderation call on an existing room, other than the
\* deletion of a default room and the removal of the creator from the moderators
ModerationCall(c) ==
  /\ c.op \in ModerationOps
  /\ c.roomId \in DOMAIN rmRooms
  /\ ~(c.op = "deleteRoom" /\ c.roomId \in DefaultRooms)
  /\ ~(c.op = "removeModerator" /\ c.userId = rmRooms[c.roomId].createdBy)

\* C20 as stated: for addModerator, removeModerator and deleteRoom (of a room that
\* is not a default room) a requester who is a moderator of the room or its creator
\* is allowed, and any other requester is refused with nothing changed.
ModeratorOrCreatorMayManage ==
  [][ModerationCall(rmCall')
       => LET c == rmCall'
              room == rmRooms[c.roomId]
              allowed == c.requesterId \in room.moderators
                           \/ c.requesterId = room.createdBy
          IN /\ allowed => c.success
             /\ ~allowed => (~c.success /\ rmRooms' = rmRooms)]_vars

\* C20 amended: addModerator allows a requester who is a moderator of the room or
\* its creator; removeModerator and deleteRoom allow the creator only, so a
\* moderator who is not the creator is refused by them; a requester who is neither
\* is refused by all three; every refusal leaves the registry and the moderator
\* sets as they were.
CreatorOnlyRemovesAndDeletes ==
  [][ModerationCall(rmCall')
       => LET c == rmCall'
              room == rmRooms[c.roomId]
              creator == c.requesterId = room.createdBy
              moderator == c.requesterId \in room.moderators
              allowed == IF c.op = "addModerator" THEN moderator \/ creator ELSE creator
          IN /\ allowed => c.success
             /\ ~allowed => (~c.success /\ c.error # "" /\ rmRooms' = rmRooms)
             /\ (c.op = "addModerator" /\ c.success)
                  => rmRooms' = [rmRooms EXCEPT ![c.roomId].moderators = @ \cup {c.userId}]
             /\ (c.op = "removeModerator" /\ c.success)
                  => rmRooms' = [rmRooms EXCEPT ![c.roomId].moderators = @ \ {c.userId}]
             /\ (c.op = "deleteRoom" /\ c.success)
                  => /\ DOMAIN rmRooms' = DOMAIN rmRooms \ {c.roomId}
                     /\ \A r \in DOMAIN rmRooms' : rmRooms'[r] = rmRooms[r]]_vars

\* a moderator who is not the creator has just been refused the removal of
\* another moderator
ModeratorRefusedWitness ==
  /\ rmCall.op = "removeModerator"
  /\ ~rmCall.success
  /\ rmCall.roomId \in DOMAIN rmRooms
  /\ rmCall.requesterId \in rmRooms[rmCall.roomId].moderators
  /\ rmCall.requesterId # rmRooms[rmCall.roomId].createdBy
  /\ rmCall.userId \in rmRooms[rmCall.roomId].moderators
  /\ rmCall.userId # rmRooms[rmCall.roomId].createdBy
  /\ rmCall.error = "Only room creator can remove moderators"

\* String.prototype.toLowerCase on the names the connections use
ToLowerCase(name) ==
  CASE name = "Alice" -> "alice"
    [] name = "Anonymous" -> "anonymous"
    [] OTHER -> name

\* C21: at no time do two connected sessions have display names that are equal
\* ignoring case: a connection that supplies a name in use by a connected user
\* gets no session under that name.
NamesUnique ==
  \A i, j \in 1..Len(sessions) :
    i # j => ToLowerCase(sessions[i].username) # ToLowerCase(sessions[j].username)

\* C22: in RoomManager a successful joinRoom(B, u) leaves u in no other room's
\* member set, so a user is a member of at most one room at any time.
AtMostOneRoom ==
  [][/\ \A u \in RoomUsers : Cardinality(getUserRooms(u)') <= 1
     /\ (rmCall'.op = "joinRoom" /\ rmCall'.success)
          => \A r \in DOMAIN rmRooms' :
               r # rmCall'.roomId => rmCall'.userId \notin rmRooms'[r].users]_vars

\* C26: the creator of every room is one of its moderators: createRoom installs
\* the creator as the only moderator of a room without members, and removeModerator
\* refuses to remove the creator.
CreatorStaysModerator ==
  [][/\ \A r \in DOMAIN rmRooms' : rmRooms'[r].createdBy \in rmRooms'[r].moderators
     /\ rmCall'.op = "createRoom"
          => /\ rmCall'.roomId \notin DOMAIN rmRooms
             /\ rmRooms'[rmCall'.roomId].createdBy = rmCall'.requesterId
             /\ rmRooms'[rmCall'.roomId].moderators = {rmCall'.requesterId}
             /\ rmRooms'[rmCall'.roomId].users = {}
     /\ (rmCall'.op = "removeModerator" /\ rmCall'.roomId \in DOMAIN rmRooms
           /\ rmCall'.userId = rmRooms[rmCall'.roomId].createdBy)
          => (~rmCall'.success /\ rmRooms' = rmRooms)]_vars

\* the creator of a created room that has a second moderator has just been
\* refused its own removal from the moderators
CreatorStaysWitness ==
  /\ rmCall.op = "removeModerator"
  /\ rmCall.roomId = CreatedRoomIds[1]
  /\ rmCall.roomId \in DOMAIN rmRooms
  /\ rmCall.requesterId = rmRooms[rmCall.roomId].createdBy
  /\ rmCall.userId = rmCall.requesterId
  /\ rmCall.error = "Cannot remove room creator as moderator"
  /\ Cardinality(rmRooms[rmCall.roomId].moderators) = 2

\* C24: every typing indicator belongs to a user who has a session whose current
\* room is the indicator's room: start_typing for another room records nothing,
\* and an indicator does not outlive its user's leaving the room or disconnecting.
IndicatorsBelongToMembers ==
  \A e \in Range(typingIndicators) :
    \E s \in Range(sessions) : s.userId = e.userId /\ s.currentRoom = e.roomId

\* C27: getMessages(roomId, limit, before) with a `before` id that is in the room's
\* list returns the most recent min(limit, count) of the messages positioned
\* strictly before that message, in order, wherever `before` is in the list; when
\* `before` is the oldest message the result is empty.
PageBeforeIsStrict ==
  [][(lastCall' # lastCall /\ lastCall'.op = "getMessages" /\ lastCall'.id # NoMessage)
       => LET list == StoreList(lastCall'.roomId)
          IN \A j \in 1..Len(list) :
               list[j].id = lastCall'.id
                 => lastCall'.value = MostRecent(SubSeq(list, 1, j - 1), lastCall'.limit)
    ]_vars

\* the user ids that reacted to a message with an emoji, as the array holds them
ReactedWith(reactions, emoji) ==
  IF ReactionIdx(reactions, emoji) = 0 THEN <<>>
  ELSE reactions[ReactionIdx(reactions, emoji)].users

\* C23: the reactions of a message are a map from emoji to a set of user ids: after
\* any addReaction and removeReaction calls each emoji has one entry, each user id
\* is at most once in it and no entry is empty; addReaction a second time changes
\* nothing; addReaction then removeReaction by a user who had not reacted with the
\* emoji gives the reactions back as they were.
ReactionsAreSets ==
  \A id \in DOMAIN messageIndex :
    LET reactions == messageIndex[id].reactions
    IN /\ \A i, j \in 1..Len(reactions) :
            i # j => reactions[i].emoji # reactions[j].emoji
       /\ \A i \in 1..Len(reactions) :
            /\ reactions[i].users # <<>>
            /\ \A k, l \in 1..Len(reactions[i].users) :
                 k # l => reactions[i].users[k] # reactions[i].users[l]
       /\ \A u \in StoreUsers, e \in Emojis :
            /\ AddedReaction(AddedReaction(reactions, u, e), u, e)
                 = AddedReaction(reactions, u, e)
            /\ u \in Range(ReactedWith(AddedReaction(reactions, u, e), e))
            /\ u \notin Range(ReactedWith(reactions, e))
                 => RemovedReaction(AddedReaction(reactions, u, e), u, e) = reactions

\* both users reacted with one emoji to a message and one of them with the other,
\* and a reaction was just removed
ReactionsWitness ==
  /\ lastCall.op = "removeReaction"
  /\ lastCall.success
  /\ lastCall.id \in DOMAIN messageIndex
  /\ \E e \in Emojis :
       /\ Len(ReactedWith(messageIndex[lastCall.id].reactions, e)) = 2
       /\ lastCall.value # <<e>>
       /\ ReactedWith(messageIndex[lastCall.id].reactions, lastCall.value[1]) # <<>>
       /\ lastCall.userId
            \notin Range(ReactedWith(messageIndex[lastCall.id].reactions, lastCall.value[1]))

\* the messages of the per-room lists, and whether the index holds exactly them,
\* each in the list of its own room
ListedIds ==
  UNION {{storeMessages[r][i].id : i \in 1..Len(storeMessages[r])} :
           r \in DOMAIN storeMessages}

IndexMatchesLists ==
  /\ DOMAIN messageIndex = ListedIds
  /\ \A r \in DOMAIN storeMessages : \A i \in 1..Len(storeMessages[r]) :
       /\ messageIndex[storeMessages[r][i].id] = storeMessages[r][i]
       /\ storeMessages[r][i].roomId = r
  /\ \A r \in DOMAIN storeMessages :
       Cardinality({storeMessages[r][i].id : i \in 1..Len(storeMessages[r])})
         = Len(storeMessages[r])

MessageCalls == {"editMessage", "addReaction", "removeReaction", "deleteMessage"}

\* C25: after any addMessage, editMessage, deleteMessage and cap eviction the
\* message index and the per-room lists hold exactly the same messages (getMessage
\* finds an id if and only if the message is in its room's list), and a call that
\* names a message in no list, evicted or deleted, fails with 'Message not found'
\* and changes nothing.
IndexAndListsAgree ==
  [][/\ IndexMatchesLists'
     /\ (lastCall' # lastCall /\ lastCall'.op \in MessageCalls
           /\ lastCall'.id \notin ListedIds)
          => /\ ~lastCall'.success
             /\ lastCall'.error = "Message not found"
             /\ storeMessages' = storeMessages
             /\ messageIndex' = messageIndex
     /\ (lastCall' # lastCall /\ lastCall'.op \in MessageCalls
           /\ lastCall'.id \in ListedIds)
          => lastCall'.error # "Message not found"
    ]_vars

\* the room is full, its two oldest messages were evicted by the cap, and an edit
\* of the second was just refused
EvictedRefusedWitness ==
  /\ lastCall.op = "editMessage"
  /\ lastCall.id = 2
  /\ lastCall.error = "Message not found"
  /\ Len(StoreList("general")) = StoreCap
  /\ StoreList("general")[1].id = 3
  /\ storeNextId = StoreCap + 3

\* C28: whatever the interleaving of POST /api/orders handlers that wait at their
\* await between the inventory check and the inventory decrement, of cart updates and
\* of order cancellations, no product's inventory is ever negative.
InventoryNeverNegative ==
  \A p \in DOMAIN products : products[p].inventory >= 0

\* the quantity of a product in a list of order items
RECURSIVE ItemsQuantity(_, _)
ItemsQuantity(items, p) ==
  IF items = <<>> THEN 0
  ELSE (IF Head(items).productId = p THEN Head(items).quantity ELSE 0)
       + ItemsQuantity(Tail(items), p)

\* the quantity of a product held by the orders that are not cancelled
RECURSIVE HeldBy(_, _)
HeldBy(os, p) ==
  IF os = <<>> THEN 0
  ELSE (IF Head(os).status # "cancelled" THEN ItemsQuantity(Head(os).items, p) ELSE 0)
       + HeldBy(Tail(os), p)

InventoryConserved ==
  \A p \in DOMAIN products :
    products[p].inventory + HeldBy(orders, p) = seedData[p].inventory

\* C29: across any sequence of order creations, cancellations and admin status
\* changes each product's inventory plus the quantity held by its orders that are
\* not cancelled stays what it was: an order reserves its quantities once, a
\* cancellation of a shipped, delivered or cancelled order is rejected, and the
\* quantities of an order go back to the inventory at most once.
ReservationsBalance ==
  [][/\ InventoryConserved'
     /\ (shopCall' # shopCall /\ shopCall'.op = "POST /api/orders/cancel"
           /\ shopCall'.id \in 1..Len(orders)
           /\ orders[shopCall'.id].status \in {"shipped", "delivered", "cancelled"})
          => /\ shopCall'.status = 400
             /\ products' = products
             /\ orders' = orders
    ]_vars

\* C30: 'succeeded' and 'canceled' are terminal for a payment intent (a confirmation
\* of either fails, a cancellation of a succeeded one fails), no order is cancelled
\* while its payment intent is succeeded, and no payment confirmation makes a
\* cancelled order confirmed.
PaymentsAndOrdersAgree ==
  [][/\ \A i \in 1..Len(paymentIntents) :
          paymentIntents[i].status \in {"succeeded", "canceled"}
            => paymentIntents'[i].status = paymentIntents[i].status
     /\ (shopCall' # shopCall /\ shopCall'.op = "POST /api/payments/confirm"
           /\ shopCall'.id \in 1..Len(paymentIntents)
           /\ paymentIntents[shopCall'.id].status \in {"succeeded", "canceled"})
          => shopCall'.status = 400
     /\ \A id \in 1..Len(orders') :
          ~(/\ orders'[id].status = "cancelled"
            /\ paymentIntents'[orders'[id].paymentId].status = "succeeded")
     /\ \A id \in 1..Len(orders) :
          (shopCall'.op = "POST /api/payments/confirm" /\ orders[id].status = "cancelled")
            => orders'[id].status # "confirmed"
    ]_vars

====
